---- MODULE Spec2Model ----
(***************************************************************************)
(* Model of the deepseek-ocr command-line client:                          *)
(*   - ConfigManager.getEffective   (src/src/lib/config-manager.js)        *)
(*   - OCRClient.waitForTask        (src/src/lib/client.js)                *)
(*   - processInChunks / processSingleFile (src/src/commands/batch.js)     *)
(*   - the task history store       (commands/task.js)                     *)
(*   - the config subcommands and maskApiKey (src/src/commands/config.js)  *)
(*   - extractZip                   (src/src/lib/utils.js)                 *)
(*   - the batch and pdf commands   (commands/batch.js, commands/pdf.js)   *)
(*   - the upload retry loop        (src/src/lib/client.js)                *)
(* Each subsystem has its own specification over the shared variables; the *)
(* variables of the other subsystems stay at their idle values.            *)
(***************************************************************************)
EXTENDS Integers, Sequences, FiniteSets, TLC

VARIABLES
    \* ---- configuration resolver ----
    processEnv,     \* process.env restricted to the variables the CLI reads
    configStore,    \* the persisted conf store, key -> value
    effective,      \* key -> the last getEffective call for that key (or NoCall)
    \* ---- waitForTask (one call) ----
    pollOpts,       \* the options argument: initialDelay, maxDelay, timeout (0 = not given)
    script,         \* what the server answers to the 1st, 2nd, ... status query
    pollPc,         \* position in waitForTask: "idle", "check", "query", "sleep", "done"
    now,            \* Date.now(), in clock ticks
    startTime,      \* const startTime
    delay,          \* let delay
    pollCount,      \* let pollCount
    sleepFor,       \* the duration handed to the pending setTimeout
    queries,        \* number of getTaskStatus requests issued so far
    sink,           \* the snapshots handed to onProgress, in call order
    outcome,        \* how the call ended: the returned snapshot or the thrown error
    \* ---- task history store ----
    historyFile,    \* history.json: whether it exists, and the entries it holds
    clock,          \* Date.now() as the task commands see it, in retention ticks
    lastOp,         \* the last history operation: its arguments and what it did
    \* ---- batch runner (one processInChunks call) ----
    files,          \* validFiles, the input list
    fate,           \* per file: what its processing runs into
    noExtract,      \* options.noExtract
    workers,        \* the workers argument
    batchPc,        \* position in processInChunks: "idle", "loop", "await", "done"
    loopI,          \* the loop variable i (0-based)
    chunkPromises,  \* the promises of the current chunk, in chunk order
    results,        \* const results
    started,        \* per file index: how many times processSingleFile was called
    finishOrder,    \* file indexes in the order their processing finished
    batchOutcome,   \* "none", "returned" or "rejected"
    \* ---- command handlers ----
    apiKey,         \* the conf store's api.key, a sequence of characters (empty = not set)
    printed,        \* what the last config subcommand wrote to the terminal
    lastCmd,        \* the last config subcommand and its arguments
    zip,            \* one extractZip call: the archive, the platform, what got extracted
    exitCode,       \* whether the batch command's process has exited, and its exit code
    pdfCmd,         \* one pdf command: the --max-pages argument and how the command went
    upload,         \* one upload request of the client: attempts, sleeps, outcome
    run,            \* one image, pdf or batch command: what it validated and what it sent
    proc,           \* the process of a command that waits for a task: signals, exit
    writers         \* two CLI processes working on the history file at the same time

cfgVars == <<processEnv, configStore, effective>>
pollVars == <<pollOpts, script, pollPc, now, startTime, delay, pollCount, sleepFor,
              queries, sink, outcome>>
histVars == <<historyFile, clock, lastOp>>
batchVars == <<files, fate, noExtract, workers, batchPc, loopI, chunkPromises, results,
               started, finishOrder, batchOutcome>>
restVars == <<run, proc, writers>>
cmdVars == <<apiKey, printed, lastCmd, zip, exitCode, pdfCmd, upload, run, proc, writers>>

vars == <<processEnv, configStore, effective,
          pollOpts, script, pollPc, now, startTime, delay, pollCount, sleepFor,
          queries, sink, outcome,
          historyFile, clock, lastOp,
          files, fate, noExtract, workers, batchPc, loopI, chunkPromises, results,
          started, finishOrder, batchOutcome,
          apiKey, printed, lastCmd, zip, exitCode, pdfCmd, upload, run, proc, writers>>

(***************************************************************************)
(* JavaScript values.  undefined and null are distinct sentinels; every    *)
(* other value is a string.                                                *)
(***************************************************************************)
Undefined == "<undefined>"
Null      == "<null>"

(***************************************************************************)
(* Configuration resolver                                                  *)
(***************************************************************************)
Keys      == {"api.baseUrl", "defaults.mode"}
EnvNames  == {"DEEPSEEK_BASE_URL"}
NoEnvVar  == ""                      \* getEffective called without an envVar name

CliValues     == {Undefined, Null, "", "cli-value"}
EnvValues     == {Undefined, "", "env-value"}
FileValues    == {Undefined, Null, "", "file-value"}
DefaultValues == {"default-value"}

\* ---- idle values of each subsystem's variables ----
NoOutcome == [kind |-> "none", snapshot |-> Undefined, message |-> Undefined]

PollIdle ==
    /\ pollOpts = [initialDelay |-> 0, maxDelay |-> 0, timeout |-> 0]
    /\ script = << >>
    /\ pollPc = "idle"
    /\ now = 0
    /\ startTime = 0
    /\ delay = 0
    /\ pollCount = 0
    /\ sleepFor = 0
    /\ queries = 0
    /\ sink = << >>
    /\ outcome = NoOutcome

NoOp == [op |-> "none", taskId |-> "", inputFile |-> "", wrote |-> FALSE,
         returned |-> << >>]

HistIdle ==
    /\ historyFile = [exists |-> FALSE, entries |-> << >>]
    /\ clock = 0
    /\ lastOp = NoOp

BatchIdle ==
    /\ files = << >>
    /\ fate = << >>
    /\ noExtract = FALSE
    /\ workers = 1
    /\ batchPc = "idle"
    /\ loopI = 0
    /\ chunkPromises = << >>
    /\ results = << >>
    /\ started = << >>
    /\ finishOrder = << >>
    /\ batchOutcome = "none"

NoCmd == [cmd |-> "none", key |-> << >>, json |-> FALSE, exit |-> 0]

CfgCmdIdle ==
    /\ apiKey = << >>
    /\ printed = << >>
    /\ lastCmd = NoCmd

NoZip == [pc |-> "idle", entries |-> << >>, admZip |-> FALSE, platform |-> "linux",
          extracted |-> {}, by |-> "none", outcome |-> "none"]
ZipIdle == zip = NoZip

NoExit == [exited |-> FALSE, code |-> 0]
ExitIdle == exitCode = NoExit

NoPdf == [pc |-> "idle", arg |-> [kind |-> "absent", n |-> 0], flag |-> "auto",
          requests |-> 0, method |-> "none", form |-> [present |-> FALSE, n |-> 0],
          rejected |-> FALSE, exit |-> 0]
PdfIdle == pdfCmd = NoPdf

NoUpload == [pc |-> "idle"]
UploadIdle == upload = NoUpload

NoRun == [pc |-> "idle"]
RunIdle == run = NoRun

NoProc == [pc |-> "idle"]
ProcIdle == proc = NoProc

NoWriters == << >>
WritersIdle == writers = NoWriters

RestIdle == RunIdle /\ ProcIdle /\ WritersIdle

CmdIdle == CfgCmdIdle /\ ZipIdle /\ ExitIdle /\ PdfIdle /\ UploadIdle /\ RestIdle

NoCall == [envVar |-> NoEnvVar, cliValue |-> Undefined, fileValue |-> Undefined,
           defaultValue |-> Undefined, result |-> Undefined, called |-> FALSE]

\* process.env[envVar]
EnvLookup(envVar) == IF envVar \in EnvNames THEN processEnv[envVar] ELSE Undefined

\* ConfigManager.get(key): the conf store's value, undefined when the key is not set
ConfigGet(key) == configStore[key]

\* Faulty variant of getEffective: the precedence of the method's own doc comment
\* ("env var > config file > default"), the CLI flag consulted last.
getEffectiveEnvFirst(key, envVar, cliValue, defaultValue) ==
    IF envVar # NoEnvVar /\ EnvLookup(envVar) \notin {Undefined, ""}
    THEN EnvLookup(envVar)
    ELSE IF ConfigGet(key) \notin {Undefined, Null, ""}
         THEN ConfigGet(key)
         ELSE IF cliValue \notin {Undefined, Null} THEN cliValue ELSE defaultValue

\* ConfigManager.getEffective(key, envVar, cliValue, defaultValue)
getEffective(key, envVar, cliValue, defaultValue) ==
    IF cliValue # Undefined /\ cliValue # Null
    THEN cliValue
    ELSE IF envVar # NoEnvVar /\ EnvLookup(envVar) \notin {Undefined, ""}
         THEN EnvLookup(envVar)
         ELSE LET configValue == ConfigGet(key)
              IN  IF configValue # Undefined /\ configValue # Null /\ configValue # ""
                  THEN configValue
                  ELSE defaultValue

CfgInit ==
    /\ processEnv \in [EnvNames -> EnvValues]
    /\ configStore \in [Keys -> FileValues]
    /\ effective = [k \in Keys |-> NoCall]

CfgIdle ==
    /\ processEnv = [e \in EnvNames |-> Undefined]
    /\ configStore = [k \in Keys |-> Undefined]
    /\ effective = [k \in Keys |-> NoCall]

\* ConfigManager.set(key, value)
ConfigSet(key, value) ==
    /\ value # Undefined
    /\ configStore[key] # value
    /\ configStore' = [configStore EXCEPT ![key] = value]
    /\ UNCHANGED <<processEnv, effective>>

\* ConfigManager.delete(key)
ConfigDelete(key) ==
    /\ configStore[key] # Undefined
    /\ configStore' = [configStore EXCEPT ![key] = Undefined]
    /\ UNCHANGED <<processEnv, effective>>

\* One call of getEffective; the call's inputs and result are kept per key.
GetEffective(key, envVar, cliValue, defaultValue) ==
    /\ effective' = [effective EXCEPT ![key] =
            [envVar |-> envVar, cliValue |-> cliValue, fileValue |-> ConfigGet(key),
             defaultValue |-> defaultValue,
             result |-> getEffective(key, envVar, cliValue, defaultValue),
             called |-> TRUE]]
    /\ UNCHANGED <<processEnv, configStore>>

InitConfig == CfgInit /\ PollIdle /\ HistIdle /\ BatchIdle /\ CmdIdle
NextConfig ==
    \/ \E k \in Keys, v \in FileValues : ConfigSet(k, v) /\ UNCHANGED <<pollVars, histVars, batchVars, cmdVars>>
    \/ \E k \in Keys : ConfigDelete(k) /\ UNCHANGED <<pollVars, histVars, batchVars, cmdVars>>
    \/ \E k \in Keys, e \in EnvNames \cup {NoEnvVar}, c \in CliValues, d \in DefaultValues :
            GetEffective(k, e, c, d) /\ UNCHANGED <<pollVars, histVars, batchVars, cmdVars>>
SpecConfig == InitConfig /\ [][NextConfig]_vars

(***************************************************************************)
(* C1: for every field, getEffective returns the value of the highest-     *)
(* precedence layer that defines the field (CLI flag > environment         *)
(* variable > config file > built-in default), whatever the layers of the  *)
(* other fields hold.  A layer defines a field when it supplies a value:   *)
(* a CLI flag that is not undefined/null, a non-empty environment          *)
(* variable, a config-file value that is not undefined/null/empty; the     *)
(* built-in default always does.                                           *)
(***************************************************************************)
\* the four layers of one call, highest precedence first, absent = Undefined
LayersOf(c) ==
    << IF c.cliValue \in {Undefined, Null} THEN Undefined ELSE c.cliValue,
       IF c.envVar = NoEnvVar \/ EnvLookup(c.envVar) = "" THEN Undefined
                                                          ELSE EnvLookup(c.envVar),
       IF c.fileValue \in {Null, ""} THEN Undefined ELSE c.fileValue,
       c.defaultValue >>

HighestDefined(layers) ==
    LET defined == {i \in 1..Len(layers) : layers[i] # Undefined}
        top     == CHOOSE i \in defined : \A j \in defined : i <= j
    IN  layers[top]

C1_PrecedencePerField ==
    \A k \in Keys : effective[k].called =>
        effective[k].result = HighestDefined(LayersOf(effective[k]))

\* the endpoint resolved from the environment (no flag) while the mode comes
\* from the config file (no flag, no environment variable)
C1_Witness ==
    /\ effective["api.baseUrl"].called
    /\ effective["api.baseUrl"].cliValue = Undefined
    /\ effective["api.baseUrl"].result = "env-value"
    /\ effective["api.baseUrl"].fileValue = "file-value"
    /\ effective["defaults.mode"].called
    /\ effective["defaults.mode"].result = "file-value"

(***************************************************************************)
(* OCRClient.waitForTask                                                   *)
(*                                                                         *)
(* Times are kept in clock ticks of 1/8 ms so that the products of the     *)
(* 1.5x backoff (2000, 3000, 4500, 6750, 10125, 15187.5, 22781.25 ms) are  *)
(* the exact values the JavaScript doubles hold.                           *)
(***************************************************************************)
Ms(n) == n * 8

POLL_INTERVAL     == Ms(2000)        \* DEFAULTS.POLL_INTERVAL
MAX_POLL_INTERVAL == Ms(30000)       \* DEFAULTS.MAX_POLL_INTERVAL
DEFAULT_TIMEOUT   == Ms(600000)      \* options.timeout || 600000
BurstPolls        == 5               \* if (pollCount < 5)

Terminal == {"completed", "failed"}

Snap(st, pr, err) == [status |-> st, progress |-> pr, error |-> err]

\* A status query either yields a Task snapshot or raises (QueryError).
QueryError == Snap("<raised>", 0, "ECONNRESET")

\* snapshots the server can answer with; error is status.error?.message
Snapshots ==
    { Snap("pending", 0, Undefined),
      Snap("processing", 45, Undefined),
      Snap("completed", 100, Undefined),
      Snap("failed", 45, "out of memory"),
      Snap("failed", 0, Undefined),
      QueryError }

MaxScriptLen == 2

\* the scenario of five queries reporting 0%, 20%, 45%, 70%, 100%
Script5 ==
    << Snap("pending", 0, Undefined), Snap("processing", 20, Undefined),
       Snap("processing", 45, Undefined), Snap("processing", 70, Undefined),
       Snap("completed", 100, Undefined) >>

\* nine pending snapshots, the tenth query reports completed
Script10 ==
    [i \in 1..10 |-> IF i < 10 THEN Snap("pending", 0, Undefined)
                               ELSE Snap("completed", 100, Undefined)]

Scripts ==
    UNION {[1..n -> Snapshots] : n \in 1..MaxScriptLen} \cup {Script5, Script10}

\* the answer to the n-th query; a server that has run out of script keeps
\* giving its last answer
ScriptAt(n) == script[IF n <= Len(script) THEN n ELSE Len(script)]

InitialDelays == {0, Ms(4000)}
MaxDelays     == {0, Ms(10000)}
Timeouts      == {0, Ms(20000)}
QueryLatencies == {0, Ms(3000)}      \* how long one status request takes

\* options.x || default
OrDefault(x, dflt) == IF x = 0 THEN dflt ELSE x

initialDelayOf == OrDefault(pollOpts.initialDelay, POLL_INTERVAL)
maxDelayOf     == OrDefault(pollOpts.maxDelay, MAX_POLL_INTERVAL)
timeoutOf      == OrDefault(pollOpts.timeout, DEFAULT_TIMEOUT)

Min(a, b) == IF a <= b THEN a ELSE b

\* Faulty variant of TimedOut: the ceiling is never enforced.
TimedOutNever == FALSE

\* Faulty variant of TimedOut: the ceiling in ms is compared as if it were in seconds.
TimedOutInSeconds == now - startTime > timeoutOf \div 1000

\* if (Date.now() - startTime > timeout)
TimedOut == now - startTime > timeoutOf

\* Faulty variant of SinkAfter: the sink is called only after the completion check,
\* i.e. for non-terminal snapshots only.
SinkAfterNonTerminalOnly(snap) ==
    IF snap.status \in Terminal THEN sink ELSE Append(sink, snap)

\* onProgress(status): called for every snapshot, before the completion check
SinkAfter(snap) == Append(sink, snap)

\* Faulty variant of Completion: a failed snapshot is not recognised and polling goes on.
CompletionIgnoresFailed(snap) ==
    IF snap.status = "completed"
    THEN [kind |-> "returned", snapshot |-> snap, message |-> Undefined]
    ELSE NoOutcome

\* the completion check: return status / throw `Task failed: ${errorMsg}` / go on
Completion(snap) ==
    IF snap.status = "completed"
    THEN [kind |-> "returned", snapshot |-> snap, message |-> Undefined]
    ELSE IF snap.status = "failed"
         THEN [kind |-> "failed", snapshot |-> Undefined,
               message |-> IF snap.error = Undefined THEN "Unknown error" ELSE snap.error]
         ELSE NoOutcome

\* the setTimeout duration after the pollCount-th query
SleepDuration(count) == IF count < BurstPolls THEN initialDelayOf ELSE delay

\* Faulty variant of DelayAfterSleep: the delay doubles instead of growing by half.
DelayAfterSleepDoubling(count) ==
    IF count < BurstPolls THEN delay ELSE Min(delay * 2, maxDelayOf)

\* delay = Math.min(delay * 1.5, maxDelay), only in the backoff branch
DelayAfterSleep(count) ==
    IF count < BurstPolls THEN delay ELSE Min((delay * 3) \div 2, maxDelayOf)

PollInit ==
    /\ pollOpts \in [initialDelay : InitialDelays, maxDelay : MaxDelays, timeout : Timeouts]
    /\ script \in Scripts
    /\ pollPc = "check"
    /\ now = 0
    /\ startTime = 0
    /\ delay = OrDefault(pollOpts.initialDelay, POLL_INTERVAL)
    /\ pollCount = 0
    /\ sleepFor = 0
    /\ queries = 0
    /\ sink = << >>
    /\ outcome = NoOutcome

\* top of the loop, the ceiling is exceeded: throw `Task timeout after ...`
ThrowTimeout ==
    /\ pollPc = "check"
    /\ TimedOut
    /\ pollPc' = "done"
    /\ outcome' = [kind |-> "timeout", snapshot |-> Undefined, message |-> Undefined]
    /\ UNCHANGED <<pollOpts, script, now, startTime, delay, pollCount, sleepFor,
                   queries, sink>>

\* Faulty variant of IssueQuery: the sleep is not awaited, so the next query goes
\* out while the timer of the previous sleep is still pending.
IssueQueryWithoutWaiting ==
    /\ pollPc \in {"check", "sleep"}
    /\ ~TimedOut
    /\ pollPc' = "query"
    /\ queries' = queries + 1
    /\ UNCHANGED <<pollOpts, script, now, startTime, delay, pollCount, sleepFor,
                   sink, outcome>>

\* top of the loop, within the ceiling: issue getTaskStatus(taskId)
IssueQuery ==
    /\ pollPc = "check"
    /\ ~TimedOut
    /\ pollPc' = "query"
    /\ queries' = queries + 1
    /\ UNCHANGED <<pollOpts, script, now, startTime, delay, pollCount, sleepFor,
                   sink, outcome>>

\* the status request raises: the rejection propagates out of waitForTask
QueryRaises(latency) ==
    /\ pollPc = "query"
    /\ ScriptAt(queries) = QueryError
    /\ now' = now + latency
    /\ pollPc' = "done"
    /\ outcome' = [kind |-> "error", snapshot |-> Undefined, message |-> QueryError.error]
    /\ UNCHANGED <<pollOpts, script, startTime, delay, pollCount, sleepFor, queries, sink>>

\* the status request answers: pollCount++, onProgress(status), completion
\* check, and for a non-terminal snapshot the setTimeout of the next sleep
QueryReturns(latency) ==
    /\ pollPc = "query"
    /\ ScriptAt(queries) # QueryError
    /\ LET status == ScriptAt(queries)
           done   == Completion(status)
       IN  /\ now' = now + latency
           /\ pollCount' = pollCount + 1
           /\ sink' = SinkAfter(status)
           /\ outcome' = done
           /\ IF done.kind # "none"
              THEN /\ pollPc' = "done"
                   /\ sleepFor' = sleepFor
              ELSE /\ pollPc' = "sleep"
                   /\ sleepFor' = SleepDuration(pollCount + 1)
    /\ UNCHANGED <<pollOpts, script, startTime, delay, queries>>

\* the timer fires: time has advanced by the sleep, delay grows after the burst
SleepElapses ==
    /\ pollPc = "sleep"
    /\ now' = now + sleepFor
    /\ delay' = DelayAfterSleep(pollCount)
    /\ pollPc' = "check"
    /\ UNCHANGED <<pollOpts, script, startTime, pollCount, sleepFor, queries, sink, outcome>>

InitPoll == PollInit /\ CfgIdle /\ HistIdle /\ BatchIdle /\ CmdIdle
NextPoll ==
    \/ ThrowTimeout /\ UNCHANGED <<cfgVars, histVars, batchVars, cmdVars>>
    \/ IssueQuery /\ UNCHANGED <<cfgVars, histVars, batchVars, cmdVars>>
    \/ \E l \in QueryLatencies : QueryRaises(l) /\ UNCHANGED <<cfgVars, histVars, batchVars, cmdVars>>
    \/ \E l \in QueryLatencies : QueryReturns(l) /\ UNCHANGED <<cfgVars, histVars, batchVars, cmdVars>>
    \/ SleepElapses /\ UNCHANGED <<cfgVars, histVars, batchVars, cmdVars>>
SpecPoll == InitPoll /\ [][NextPoll]_vars

\* the event loop runs every timer and every continuation that is due
SpecPollLive == SpecPoll /\ WF_vars(NextPoll)

(***************************************************************************)
(* C2: once a status query has answered with a terminal snapshot the call  *)
(* is over and no later query exists: a "completed" snapshot is returned   *)
(* as it was received, a "failed" snapshot raises a task-failed error      *)
(* carrying the server's error detail.                                     *)
(***************************************************************************)
\* the i-th query has been answered
Answered(i) == i < queries \/ (i = queries /\ pollPc # "query")

C2_TerminalEndsWait ==
    \A i \in 1..queries :
        (Answered(i) /\ ScriptAt(i).status \in Terminal) =>
            /\ i = queries
            /\ pollPc = "done"
            /\ ScriptAt(i).status = "completed" =>
                    /\ outcome.kind = "returned"
                    /\ outcome.snapshot = ScriptAt(i)
            /\ ScriptAt(i).status = "failed" =>
                    /\ outcome.kind = "failed"
                    /\ ScriptAt(i).error # Undefined => outcome.message = ScriptAt(i).error

C2_Witness ==
    /\ pollPc = "done"
    /\ queries = 2
    /\ ScriptAt(1).status = "processing"
    /\ outcome.kind = "failed"
    /\ outcome.message = "out of memory"

(***************************************************************************)
(* C3: when every status query answers with a non-terminal snapshot, the   *)
(* call eventually raises the timeout error, and no status query is issued *)
(* once the elapsed time exceeds the overall ceiling.                      *)
(***************************************************************************)
NeverTerminal ==
    \A i \in 1..Len(script) : script[i].status \in {"pending", "processing"}

C3_TimeoutEndsWait ==
    /\ NeverTerminal => <>(outcome.kind = "timeout")
    /\ [][(now - startTime > timeoutOf) => queries' = queries]_vars

C3_Witness ==
    /\ NeverTerminal
    /\ outcome.kind = "timeout"
    /\ queries > BurstPolls
    /\ now - startTime > timeoutOf

(***************************************************************************)
(* C4 (as stated): the progress sink is invoked for non-terminal snapshots *)
(* only, so a call that returns after k non-terminal snapshots has made k  *)
(* callbacks and none for the completed snapshot.                          *)
(***************************************************************************)
C4_SinkSkipsTerminal ==
    outcome.kind = "returned" =>
        /\ Len(sink) = pollCount - 1
        /\ \A i \in 1..Len(sink) : sink[i].status \notin Terminal

(***************************************************************************)
(* C4 (amended): the progress sink is invoked once for every snapshot      *)
(* received, the terminal one included, in the order received: a call that *)
(* returns after k non-terminal snapshots has made k + 1 callbacks, the    *)
(* last one with the completed snapshot (10 for the 10-query sequence).    *)
(***************************************************************************)
NonTerminalReceived ==
    Cardinality({i \in 1..pollCount : ScriptAt(i).status \notin Terminal})

C4_SinkEverySnapshot ==
    /\ sink = [i \in 1..pollCount |-> ScriptAt(i)]
    /\ outcome.kind = "returned" =>
            /\ Len(sink) = NonTerminalReceived + 1
            /\ sink[Len(sink)] = outcome.snapshot
    /\ (outcome.kind = "returned" /\ script = Script10) => Len(sink) = 10

C4_Witness ==
    /\ script = Script10
    /\ outcome.kind = "returned"
    /\ NonTerminalReceived = 9
    /\ Len(sink) = 10

(***************************************************************************)
(* C5: with the default timing parameters and a server answering five      *)
(* queries with 0%, 20%, 45%, 70%, 100% (completed), the call makes        *)
(* exactly 5 progress callbacks and returns the completed snapshot; it     *)
(* never raises the timeout.                                               *)
(***************************************************************************)
DefaultTiming == pollOpts = [initialDelay |-> 0, maxDelay |-> 0, timeout |-> 0]

C5_FiveQueryScenario ==
    (script = Script5 /\ DefaultTiming) =>
        /\ outcome.kind \in {"none", "returned"}
        /\ pollPc = "done" =>
                /\ outcome.kind = "returned"
                /\ outcome.snapshot = Script5[5]
                /\ Len(sink) = 5
                /\ queries = 5

C5_Witness ==
    /\ script = Script5
    /\ DefaultTiming
    /\ pollPc = "done"
    /\ outcome.kind = "returned"
    /\ Len(sink) = 5
    /\ now = 4 * POLL_INTERVAL + 5 * Ms(3000)

(***************************************************************************)
(* Task history store (commands/task.js)                                   *)
(*                                                                         *)
(* The clock counts ticks of half the retention window (3.5 days), so an   *)
(* entry is seen just before, exactly at and just after the boundary.      *)
(***************************************************************************)
RETENTION == 2                       \* 7 * 24 * 60 * 60 * 1000 ms
MaxClock  == 3

TaskIds    == {"task-a", "task-b"}
InputFiles == {"a.pdf", "b.pdf"}

\* updateTaskStatus(taskId, status.status, status.error) as the task commands call it
UpdateArgs ==
    { <<"processing", Undefined>>, <<"completed", Undefined>>,
      <<"failed", "out of memory">>, <<"failed", Undefined>> }

\* new Date().toISOString() and new Date(iso).getTime(): the string keeps the
\* millisecond value and parsing gives it back
toISOString(t) == [iso |-> t]
getTime(d)     == d.iso

\* loadHistory(): [] when the file does not exist
loadHistory == IF historyFile.exists THEN historyFile.entries ELSE << >>

\* Faulty variant of saveHistory: entries of the file that the array lacks are kept.
saveHistoryMerging(history) ==
    LET Missing(h) == \A i \in 1..Len(history) : history[i].task_id # h.task_id
    IN  [exists |-> TRUE, entries |-> history \o SelectSeq(loadHistory, Missing)]

\* saveHistory(history): rewrites the whole file
saveHistory(history) == [exists |-> TRUE, entries |-> history]

\* history.findIndex(h => h.task_id === taskId), 0 when absent (JS: -1)
findIndex(history, taskId) ==
    IF \E i \in 1..Len(history) : history[i].task_id = taskId
    THEN CHOOSE i \in 1..Len(history) :
            /\ history[i].task_id = taskId
            /\ \A j \in 1..(i - 1) : history[j].task_id # taskId
    ELSE 0

\* Faulty variant of addedHistory: the entry is pushed without looking for the task id.
addedHistoryAlwaysPush(history, taskId, inputFile, t) ==
    Append(history, [task_id |-> taskId, input_file |-> inputFile,
                     submitted_at |-> toISOString(t), last_checked |-> toISOString(t),
                     status |-> "pending", error |-> Undefined])

\* the array addTaskToHistory saves
addedHistory(history, taskId, inputFile, t) ==
    LET existingIndex == findIndex(history, taskId)
    IN  IF existingIndex >= 1
        THEN [history EXCEPT ![existingIndex].last_checked = toISOString(t)]
        ELSE Append(history, [task_id |-> taskId, input_file |-> inputFile,
                              submitted_at |-> toISOString(t),
                              last_checked |-> toISOString(t),
                              status |-> "pending", error |-> Undefined])

\* Faulty variant of updateSaves: saveHistory is called whether or not the task was found.
updateSavesAlways(history, taskId) == TRUE

\* updateTaskStatus calls saveHistory only inside if (taskIndex >= 0)
updateSaves(history, taskId) == findIndex(history, taskId) >= 1

\* the array updateTaskStatus holds after its if-block
updatedHistory(history, taskId, status, error, t) ==
    LET taskIndex == findIndex(history, taskId)
    IN  IF taskIndex >= 1
        THEN [history EXCEPT ![taskIndex].status = status,
                             ![taskIndex].last_checked = toISOString(t),
                             ![taskIndex].error = IF error # Undefined THEN error ELSE @]
        ELSE history

\* Faulty variant of keptByPrune: the age is taken from the last check, not the submission.
keptByLastChecked(h, t) == getTime(h.last_checked) > t - RETENTION

\* the filter of pruneOldTasks: submittedDate > sevenDaysAgo
keptByPrune(h, t) == getTime(h.submitted_at) > t - RETENTION

filtered(history, t) ==
    LET Keep(h) == keptByPrune(h, t) IN SelectSeq(history, Keep)

HistInit ==
    /\ historyFile = [exists |-> FALSE, entries |-> << >>]
    /\ clock = 0
    /\ lastOp = NoOp

\* time passes between two commands
Tick ==
    /\ clock < MaxClock
    /\ clock' = clock + 1
    /\ lastOp' = [NoOp EXCEPT !.op = "tick"]
    /\ UNCHANGED historyFile

\* addTaskToHistory(taskId, inputFile)
addTaskToHistory(taskId, inputFile) ==
    /\ historyFile' = saveHistory(addedHistory(loadHistory, taskId, inputFile, clock))
    /\ lastOp' = [op |-> "record", taskId |-> taskId, inputFile |-> inputFile,
                  wrote |-> TRUE, returned |-> << >>]
    /\ UNCHANGED clock

\* updateTaskStatus(taskId, status, error)
updateTaskStatus(taskId, status, error) ==
    /\ historyFile' = IF updateSaves(loadHistory, taskId)
                      THEN saveHistory(updatedHistory(loadHistory, taskId, status, error, clock))
                      ELSE historyFile
    /\ lastOp' = [op |-> "updateStatus", taskId |-> taskId, inputFile |-> "",
                  wrote |-> updateSaves(loadHistory, taskId), returned |-> << >>]
    /\ UNCHANGED clock

\* handleTaskDownload, after the result was fetched and saved:
\* updateTaskStatus(taskId, 'completed')
handleTaskDownload(taskId) ==
    /\ historyFile' = IF updateSaves(loadHistory, taskId)
                      THEN saveHistory(updatedHistory(loadHistory, taskId, "completed",
                                                      Undefined, clock))
                      ELSE historyFile
    /\ lastOp' = [op |-> "download", taskId |-> taskId, inputFile |-> "",
                  wrote |-> updateSaves(loadHistory, taskId), returned |-> << >>]
    /\ UNCHANGED clock

\* Faulty variant of pruneSaves: the pruned array is never written back.
pruneSavesNever(pruned, history) == FALSE

\* if (filtered.length < history.length) saveHistory(filtered)
pruneSaves(pruned, history) == Len(pruned) < Len(history)

\* handleTaskList: pruneOldTasks() saves when it dropped something, then the
\* file is loaded again and every loaded entry is printed
handleTaskList ==
    LET history == loadHistory
        pruned  == filtered(history, clock)
        saved   == pruneSaves(pruned, history)
        after   == IF saved THEN saveHistory(pruned) ELSE historyFile
    IN  /\ historyFile' = after
        /\ lastOp' = [op |-> "list", taskId |-> "", inputFile |-> "", wrote |-> saved,
                      returned |-> IF after.exists THEN after.entries ELSE << >>]
        /\ UNCHANGED clock

InitHistory == HistInit /\ CfgIdle /\ PollIdle /\ BatchIdle /\ CmdIdle
NextHistory ==
    \/ Tick /\ UNCHANGED <<cfgVars, pollVars, batchVars, cmdVars>>
    \/ \E t \in TaskIds, f \in InputFiles :
            addTaskToHistory(t, f) /\ UNCHANGED <<cfgVars, pollVars, batchVars, cmdVars>>
    \/ \E t \in TaskIds, a \in UpdateArgs :
            updateTaskStatus(t, a[1], a[2]) /\ UNCHANGED <<cfgVars, pollVars, batchVars, cmdVars>>
    \/ \E t \in TaskIds :
            handleTaskDownload(t) /\ UNCHANGED <<cfgVars, pollVars, batchVars, cmdVars>>
    \/ handleTaskList /\ UNCHANGED <<cfgVars, pollVars, batchVars, cmdVars>>
SpecHistory == InitHistory /\ [][NextHistory]_vars

(***************************************************************************)
(* Batch runner: processInChunks and processSingleFile (commands/batch.js) *)
(***************************************************************************)
MaxFiles   == 3
MaxWorkers == 4

OutputDir == "results"

\* the scanned directory, in readdir order
Directory ==
    << [dir |-> "in", stem |-> "a", ext |-> ".png"],
       [dir |-> "in", stem |-> "b", ext |-> ".pdf"],
       [dir |-> "in", stem |-> "c", ext |-> ".jpg"],
       [dir |-> "in", stem |-> "d", ext |-> ".pdf"],
       [dir |-> "in", stem |-> "e", ext |-> ".png"] >>

\* what the processing of one file runs into
Fates == {"ok", "uploadFails", "extractFails"}

\* basename(filePath) and basename(filePath, extname(filePath))
basename(path)       == path.stem \o path.ext
basenameNoExt(path)  == path.stem

\* join(outputDir, `${fileNameWithoutExt}_result.zip`)
zipPathOf(path) == OutputDir \o "/" \o basenameNoExt(path) \o "_result.zip"

\* does the try block of processSingleFile throw for the k-th file?
Throws(k) ==
    \/ fate[k] = "uploadFails"
    \/ fate[k] = "extractFails" /\ ~noExtract

\* Faulty variant of settled: the catch block rethrows instead of returning an entry.
settledRethrows(k) ==
    IF Throws(k)
    THEN [state |-> "rejected", index |-> k, value |-> Undefined]
    ELSE [state |-> "fulfilled", index |-> k,
          value |-> [file |-> basename(files[k]), status |-> "success",
                     output |-> zipPathOf(files[k]), error |-> Undefined]]

\* the settled promise of processSingleFile for the k-th file: the try block's
\* success entry, or the catch block's failed entry
settled(k) ==
    IF Throws(k)
    THEN [state |-> "fulfilled", index |-> k,
          value |-> [file |-> basename(files[k]), status |-> "failed",
                     output |-> Undefined, error |-> fate[k]]]
    ELSE [state |-> "fulfilled", index |-> k,
          value |-> [file |-> basename(files[k]), status |-> "success",
                     output |-> zipPathOf(files[k]), error |-> Undefined]]

\* Faulty variant of sliceEnd: the slice takes one file more than the worker count.
sliceEndOneMore(i, n) == IF i + n + 1 < Len(files) THEN i + n + 1 ELSE Len(files)

\* Faulty variant of sliceEnd: the slice stops one file short of the chunk.
sliceEndDropsLast(i, n) == IF i + n - 1 < Len(files) THEN i + n - 1 ELSE Len(files)

\* min(i + workers, files.length), the end of files.slice(i, i + workers)
sliceEnd(i, n) == IF i + n < Len(files) THEN i + n ELSE Len(files)

\* Faulty variant of pushed: each result is pushed when its file finishes, so the chunk
\* arrives in completion order.
pushedInFinishOrder(res, promises) ==
    LET InChunk(k) == \E j \in 1..Len(promises) : promises[j].index = k
        order == SelectSeq(finishOrder, InChunk)
    IN  res \o [j \in 1..Len(order) |->
                    (CHOOSE q \in {promises[x] : x \in 1..Len(promises)} :
                        q.index = order[j]).value]

\* results.push(...chunkResults), chunkResults in the order of chunkPromises
pushed(res, promises) == res \o [j \in 1..Len(promises) |-> promises[j].value]

BatchInit ==
    /\ \E n \in 1..MaxFiles :
        /\ files = SubSeq(Directory, 1, n)
        /\ fate \in [1..n -> Fates]
        /\ started = [k \in 1..n |-> 0]
    /\ noExtract \in BOOLEAN
    /\ workers \in 1..MaxWorkers
    /\ batchPc = "loop"
    /\ loopI = 0
    /\ chunkPromises = << >>
    /\ results = << >>
    /\ finishOrder = << >>
    /\ batchOutcome = "none"

\* one iteration's synchronous part: slice the chunk and call processSingleFile
\* for each member (chunk.map), which starts all of them
StartChunk ==
    /\ batchPc = "loop"
    /\ loopI < Len(files)
    /\ chunkPromises' = [j \in 1..(sliceEnd(loopI, workers) - loopI) |->
                            [state |-> "running", index |-> loopI + j, value |-> Undefined]]
    /\ started' = [k \in 1..Len(files) |->
                    IF k > loopI /\ k <= sliceEnd(loopI, workers) THEN started[k] + 1
                                                                  ELSE started[k]]
    /\ batchPc' = "await"
    /\ UNCHANGED <<files, fate, noExtract, workers, loopI, results, finishOrder,
                   batchOutcome>>

\* the processing of one running file of the chunk finishes, in any order
FileFinishes(j) ==
    /\ batchPc \in {"await", "done"}
    /\ j \in 1..Len(chunkPromises)
    /\ chunkPromises[j].state = "running"
    /\ chunkPromises' = [chunkPromises EXCEPT ![j] = settled(chunkPromises[j].index)]
    /\ finishOrder' = Append(finishOrder, chunkPromises[j].index)
    /\ UNCHANGED <<files, fate, noExtract, workers, batchPc, loopI, results, started,
                   batchOutcome>>

\* await Promise.all(chunkPromises) resumes: with every value once all are
\* fulfilled, or by throwing as soon as one promise is rejected
AwaitChunk ==
    /\ batchPc = "await"
    /\ IF \E j \in 1..Len(chunkPromises) : chunkPromises[j].state = "rejected"
       THEN /\ batchPc' = "done"
            /\ batchOutcome' = "rejected"
            /\ UNCHANGED <<results, loopI>>
       ELSE /\ \A j \in 1..Len(chunkPromises) : chunkPromises[j].state = "fulfilled"
            /\ results' = pushed(results, chunkPromises)
            /\ loopI' = loopI + workers
            /\ batchPc' = "loop"
            /\ UNCHANGED batchOutcome
    /\ UNCHANGED <<files, fate, noExtract, workers, chunkPromises, started, finishOrder>>

\* the loop condition fails: return results
ReturnResults ==
    /\ batchPc = "loop"
    /\ ~(loopI < Len(files))
    /\ batchPc' = "done"
    /\ batchOutcome' = "returned"
    /\ UNCHANGED <<files, fate, noExtract, workers, loopI, chunkPromises, results,
                   started, finishOrder>>

InitBatch == BatchInit /\ CfgIdle /\ PollIdle /\ HistIdle /\ CmdIdle
NextBatch ==
    \/ StartChunk /\ UNCHANGED <<cfgVars, pollVars, histVars, cmdVars>>
    \/ \E j \in 1..MaxWorkers : FileFinishes(j) /\ UNCHANGED <<cfgVars, pollVars, histVars, cmdVars>>
    \/ AwaitChunk /\ UNCHANGED <<cfgVars, pollVars, histVars, cmdVars>>
    \/ ReturnResults /\ UNCHANGED <<cfgVars, pollVars, histVars, cmdVars>>
SpecBatch == InitBatch /\ [][NextBatch]_vars

(***************************************************************************)
(* C6: the batch runner returns exactly one result per input file, in      *)
(* input order, for every assignment of outcomes, every completion order   *)
(* inside a chunk and every worker count.                                  *)
(***************************************************************************)
C6_OneResultPerFileInOrder ==
    batchOutcome = "returned" =>
        /\ Len(results) = Len(files)
        /\ \A k \in 1..Len(files) : results[k].file = basename(files[k])

\* a chunk of three whose members finished in reverse order
C6_Witness ==
    /\ batchOutcome = "returned"
    /\ Len(files) = 3
    /\ workers = 3
    /\ finishOrder = <<3, 2, 1>>
    /\ results[1].file = "a.png"
    /\ results[3].file = "c.jpg"

(***************************************************************************)
(* C7: a failure while processing one file becomes that file's failed      *)
(* result entry and never ends the batch call: the call is never rejected, *)
(* and when it returns every file has been processed and is reported with  *)
(* its own outcome.                                                        *)
(***************************************************************************)
C7_FailureIsAnEntry ==
    /\ batchOutcome # "rejected"
    /\ batchOutcome = "returned" =>
        \A k \in 1..Len(files) :
            /\ started[k] >= 1
            /\ k <= Len(results)
            /\ Throws(k) => /\ results[k].status = "failed"
                            /\ results[k].error # Undefined
            /\ ~Throws(k) => /\ results[k].status = "success"
                             /\ results[k].output = zipPathOf(files[k])

\* the first file of the first chunk fails; its chunk sibling and the file of
\* the next chunk are processed and succeed
C7_Witness ==
    /\ batchOutcome = "returned"
    /\ Len(files) = 3
    /\ workers = 2
    /\ results[1].status = "failed"
    /\ results[2].status = "success"
    /\ results[3].status = "success"

(***************************************************************************)
(* C8: the task list never returns an entry whose submission time is older *)
(* than the retention window, whatever record, updateStatus and list calls *)
(* and whatever passage of time came before.                               *)
(***************************************************************************)
C8_ListWithinRetention ==
    lastOp.op = "list" =>
        \A i \in 1..Len(lastOp.returned) :
            ~(clock - getTime(lastOp.returned[i].submitted_at) > RETENTION)

\* a second list call, after an entry was checked inside the window and then
\* crossed the boundary, drops that entry and keeps a younger one
C8_Witness ==
    /\ lastOp.op = "list"
    /\ lastOp.wrote
    /\ clock = MaxClock
    /\ Len(lastOp.returned) = 1
    /\ clock - getTime(lastOp.returned[1].submitted_at) < RETENTION

(***************************************************************************)
(* C9: record is an upsert keyed by the task identifier.  Recording an     *)
(* unseen id appends one "pending" entry; recording a present id changes   *)
(* nothing but that entry's last-checked time; no two entries of the store *)
(* ever share a task identifier.                                           *)
(***************************************************************************)
Ids(history) == {history[i].task_id : i \in 1..Len(history)}

UniqueIds(history) ==
    \A i, j \in 1..Len(history) : history[i].task_id = history[j].task_id => i = j

RecordStep ==
    lastOp'.op = "record" =>
        LET before == loadHistory
            after  == historyFile'.entries
            t      == lastOp'.taskId
        IN  IF t \in Ids(before)
            THEN /\ Len(after) = Len(before)
                 /\ \A i \in 1..Len(before) :
                        IF before[i].task_id = t
                        THEN after[i] = [before[i] EXCEPT !.last_checked = toISOString(clock)]
                        ELSE after[i] = before[i]
            ELSE /\ Len(after) = Len(before) + 1
                 /\ SubSeq(after, 1, Len(before)) = before
                 /\ after[Len(after)].task_id = t
                 /\ after[Len(after)].status = "pending"
                 /\ after[Len(after)].input_file = lastOp'.inputFile
                 /\ getTime(after[Len(after)].submitted_at) = clock

C9_RecordIsUpsert ==
    /\ [][RecordStep]_vars
    /\ [](UniqueIds(historyFile.entries))

\* a task recorded again, later and with another file, after its status moved on
C9_Witness ==
    /\ lastOp.op = "record"
    /\ Len(historyFile.entries) = 2
    /\ \E i \in 1..2 :
        /\ historyFile.entries[i].task_id = lastOp.taskId
        /\ historyFile.entries[i].input_file # lastOp.inputFile
        /\ historyFile.entries[i].status = "completed"
        /\ getTime(historyFile.entries[i].submitted_at) < clock
        /\ getTime(historyFile.entries[i].last_checked) = clock

(***************************************************************************)
(* C10: updateStatus for a task identifier that is not in the store leaves *)
(* the persisted store exactly as it was and does not write the file.      *)
(***************************************************************************)
UnknownUpdateStep ==
    (lastOp'.op = "updateStatus" /\ lastOp'.taskId \notin Ids(loadHistory)) =>
        /\ historyFile' = historyFile
        /\ lastOp'.wrote = FALSE

C10_UnknownUpdateIsNoOp == [][UnknownUpdateStep]_vars

\* an update for an unknown id, on a store that holds another task
C10_Witness ==
    /\ lastOp.op = "updateStatus"
    /\ lastOp.taskId \notin Ids(historyFile.entries)
    /\ Len(historyFile.entries) = 1
    /\ ~lastOp.wrote

(***************************************************************************)
(* The config subcommands (src/src/commands/config.js) and the masking of  *)
(* the API key (ConfigManager.maskApiKey).  Strings that matter here are   *)
(* sequences of one-character strings, so that substring, includes and     *)
(* "the output contains the key" are computed character by character.      *)
(***************************************************************************)
MaxKeyLen == 20

\* The characters API keys are drawn from, one distinct character per position,
\* none of them occurring in a key path, the base URL or a fixed message.
KeyAlphabet == <<"0", "1", "2", "3", "4", "5", "6", "7", "8", "9", "A", "B",
                 "C", "D", "E", "F", "G", "H", "J", "K", "L", "M", "N", "P">>
Credentials == { SubSeq(KeyAlphabet, 1, n) : n \in 0..MaxKeyLen }

PathApiKey  == <<"a", "p", "i", ".", "k", "e", "y">>
PathApi     == <<"a", "p", "i">>
PathBaseUrl == <<"a", "p", "i", ".", "b", "a", "s", "e", "U", "r", "l">>
KeyPaths    == {PathApiKey, PathApi, PathBaseUrl}
BaseUrlValue == <<"h", "t", "t", "p", ":", "/", "/", "h">>

Placeholder == <<"*", "*", "*">>
Ellipsis    == <<".", ".", ".">>
NotSet      == <<"(", "n", "o", "t", " ", "s", "e", "t", ")">>
ObjectObject == <<"[", "o", "b", "j", "e", "c", "t", " ", "O", "b", "j", "e", "c", "t", "]">>

\* String.prototype.substring(from, to), 0-based, to exclusive
substring(str, from, to) == SubSeq(str, from + 1, to)

\* String.prototype.includes(sub)
includes(str, sub) ==
    \E i \in 0..(Len(str) - Len(sub)) : SubSeq(str, i + 1, i + Len(sub)) = sub

\* Faulty variant of maskApiKey: the length test guards only the prefix, so keys
\* of 8 to 15 characters are printed as two overlapping halves.
maskApiKeyShortThreshold(key) ==
    IF key = << >> \/ Len(key) < 8
    THEN Placeholder
    ELSE substring(key, 0, 8) \o Ellipsis \o substring(key, Len(key) - 8, Len(key))

\* ConfigManager.maskApiKey(key)
maskApiKey(key) ==
    IF key = << >> \/ Len(key) < 16
    THEN Placeholder
    ELSE substring(key, 0, 8) \o Ellipsis \o substring(key, Len(key) - 8, Len(key))

\* JavaScript values a config key can hold
JsUndefined   == [type |-> "undefined"]
JsString(str) == [type |-> "string", chars |-> str]
JsObject(fs)  == [type |-> "object", fields |-> fs]

\* configManager.get(key) on the conf store
StoreGet(key) ==
    IF key = PathApiKey
    THEN IF apiKey = << >> THEN JsUndefined ELSE JsString(apiKey)
    ELSE IF key = PathApi
         THEN JsObject(<<BaseUrlValue, apiKey>>)
         ELSE JsString(BaseUrlValue)

\* key.includes('key') ? ConfigManager.maskApiKey(value) : value
displayValue(key, value) ==
    IF includes(key, <<"k", "e", "y">>)
    THEN JsString(maskApiKey(IF value.type = "string" THEN value.chars ELSE << >>))
    ELSE value

\* The text JSON.stringify writes for a value: its strings, comma separated
RECURSIVE joined(_)
joined(fs) == IF fs = << >> THEN << >>
              ELSE IF Len(fs) = 1 THEN fs[1]
              ELSE fs[1] \o <<",">> \o joined(Tail(fs))
JSONstringify(value) == IF value.type = "string" THEN value.chars ELSE joined(value.fields)

\* The text a template literal `${value}` writes (printKeyValue)
templateString(value) == IF value.type = "string" THEN value.chars ELSE ObjectObject

CfgCmdInit ==
    /\ apiKey \in Credentials
    /\ printed = << >>
    /\ lastCmd = NoCmd

\* handleConfigShow(options)
shown(key, json) ==
    IF key # << >>
    THEN <<maskApiKey(key), BaseUrlValue>>
    ELSE IF json THEN <<BaseUrlValue>> ELSE <<NotSet, BaseUrlValue>>

handleConfigShow(json) ==
    /\ printed' = shown(apiKey, json)
    /\ lastCmd' = [cmd |-> "show", key |-> << >>, json |-> json, exit |-> 0]
    /\ UNCHANGED apiKey

\* handleConfigInit(): the wizard stores the key it was given, then shows the config
handleConfigInit(answer) ==
    /\ IF answer = << >>
       THEN /\ printed' = << >>
            /\ lastCmd' = [cmd |-> "init", key |-> << >>, json |-> FALSE, exit |-> 1]
            /\ UNCHANGED apiKey
       ELSE /\ apiKey' = answer
            /\ printed' = shown(answer, FALSE)
            /\ lastCmd' = [cmd |-> "init", key |-> << >>, json |-> FALSE, exit |-> 0]

\* handleConfigSet(key, value, options)
handleConfigSet(key, value, json) ==
    IF value = << >>
    THEN /\ printed' = << >>
         /\ lastCmd' = [cmd |-> "set", key |-> key, json |-> json, exit |-> 1]
         /\ UNCHANGED apiKey
    ELSE /\ apiKey' = IF key = PathApiKey THEN value ELSE apiKey
         /\ printed' = <<key, (IF json THEN JSONstringify(displayValue(key, JsString(value)))
                                      ELSE templateString(displayValue(key, JsString(value))))>>
         /\ lastCmd' = [cmd |-> "set", key |-> key, json |-> json, exit |-> 0]

\* handleConfigGet(key, options)
handleConfigGet(key, json) ==
    LET value == StoreGet(key)
    IN  /\ IF value = JsUndefined
           THEN /\ printed' = <<key>>
                /\ lastCmd' = [cmd |-> "get", key |-> key, json |-> json, exit |-> 1]
           ELSE /\ printed' = <<key, (IF json THEN JSONstringify(displayValue(key, value))
                                             ELSE templateString(displayValue(key, value)))>>
                /\ lastCmd' = [cmd |-> "get", key |-> key, json |-> json, exit |-> 0]
        /\ UNCHANGED apiKey

InitConfigCmd ==
    /\ CfgCmdInit /\ ZipIdle /\ ExitIdle /\ PdfIdle /\ UploadIdle
    /\ CfgIdle /\ PollIdle /\ HistIdle /\ BatchIdle /\ RestIdle
NextConfigCmd ==
    \/ \E j \in BOOLEAN : handleConfigShow(j)
          /\ UNCHANGED <<cfgVars, pollVars, histVars, batchVars, zip, exitCode, pdfCmd, upload, restVars>>
    \/ \E a \in Credentials : handleConfigInit(a)
          /\ UNCHANGED <<cfgVars, pollVars, histVars, batchVars, zip, exitCode, pdfCmd, upload, restVars>>
    \/ \E v \in Credentials, j \in BOOLEAN : handleConfigSet(PathApiKey, v, j)
          /\ UNCHANGED <<cfgVars, pollVars, histVars, batchVars, zip, exitCode, pdfCmd, upload, restVars>>
    \/ \E j \in BOOLEAN : handleConfigSet(PathBaseUrl, BaseUrlValue, j)
          /\ UNCHANGED <<cfgVars, pollVars, histVars, batchVars, zip, exitCode, pdfCmd, upload, restVars>>
    \/ \E k \in KeyPaths, j \in BOOLEAN : handleConfigGet(k, j)
          /\ UNCHANGED <<cfgVars, pollVars, histVars, batchVars, zip, exitCode, pdfCmd, upload, restVars>>
SpecConfigCmd == InitConfigCmd /\ [][NextConfigCmd]_vars

\* C11: maskApiKey turns a key of at least 16 characters into its first 8
\* characters, an ellipsis and its last 8 characters, and any shorter or empty key
\* into the fixed placeholder, which shares no character with the key; "config get
\* api.key" prints exactly that.
MaskedAsClaimed(key, out) ==
    IF Len(key) >= 16
    THEN /\ Len(out) = 19
         /\ \A i \in 1..8 : out[i] = key[i] /\ out[11 + i] = key[Len(key) - 8 + i]
         /\ \A i \in 9..11 : out[i] = "."
    ELSE /\ out = <<"*", "*", "*">>
         /\ \A i \in 1..Len(out), j \in 1..Len(key) : out[i] # key[j]
C11_MaskKeepsEightAndEight ==
    /\ MaskedAsClaimed(apiKey, maskApiKey(apiKey))
    /\ (lastCmd.cmd = "get" /\ lastCmd.key = PathApiKey /\ lastCmd.exit = 0)
          => MaskedAsClaimed(apiKey, printed[2])
C11_Witness ==
    /\ lastCmd.cmd = "get" /\ lastCmd.key = PathApiKey /\ lastCmd.exit = 0
    /\ Len(apiKey) = 17
    /\ printed[2] = <<"0", "1", "2", "3", "4", "5", "6", "7", ".", ".", ".",
                      "9", "A", "B", "C", "D", "E", "F", "G">>

\* C13: no config subcommand, in text or JSON form and for any key path, writes
\* the complete stored API key to the terminal.
C13_NeverPrintsFullKey ==
    apiKey # << >> => \A i \in 1..Len(printed) : ~includes(printed[i], apiKey)

(***************************************************************************)
(* extractZip (src/src/lib/utils.js).  An archive is the list of its       *)
(* entries, each either resolving inside the output directory or escaping  *)
(* it.  The command-line tools are outside the program: what they write    *)
(* and how they exit is a free choice among the outcomes such a tool has.  *)
(***************************************************************************)
MaxEntries == 3

EntryKinds == {"inside", "escaping"}
Archives   == UNION { [1..n -> EntryKinds] : n \in 1..MaxEntries }
Platforms  == {"linux", "win32"}
ToolResults == {"unavailable", "extracted", "warned"}

\* !resolvedEntryPath.startsWith(resolvedOutputDir + path.sep) && resolvedEntryPath !== resolvedOutputDir
unsafeEntries(entries) == { i \in 1..Len(entries) : entries[i] = "escaping" }
safeEntries(entries)   == { i \in 1..Len(entries) : entries[i] = "inside" }

ZipInit ==
    zip \in [pc : {"import"}, entries : Archives, admZip : BOOLEAN, platform : Platforms,
             extracted : {{}}, by : {"none"}, outcome : {"none"}]

\* const AdmZip = await import('adm-zip')...; without it the function throws
\* 'adm-zip not available' into its own catch block
ImportAdmZip ==
    /\ zip.pc = "import"
    /\ zip' = [zip EXCEPT !.pc = IF zip.admZip THEN "validate" ELSE "fallback"]

\* Where the validation loop leaves the call: on to extractAllTo, or, when an
\* entry is unsafe, via the thrown error into the enclosing catch block
afterValidation(entries) ==
    IF unsafeEntries(entries) # {} THEN "fallback" ELSE "extract"

ValidateEntries ==
    /\ zip.pc = "validate"
    /\ zip' = [zip EXCEPT !.pc = afterValidation(zip.entries)]

\* zip.extractAllTo(outputDir, true); return outputDir -- or it throws
ExtractAllTo(ok) ==
    /\ zip.pc = "extract"
    /\ zip' = IF ok
              THEN [zip EXCEPT !.pc = "done", !.extracted = 1..Len(zip.entries),
                               !.by = "adm-zip", !.outcome = "returned"]
              ELSE [zip EXCEPT !.pc = "fallback"]

\* catch (error) { ... execAsync(unzip / Expand-Archive) ...; return outputDir }
CommandLineFallback(result, wrote) ==
    /\ zip.pc = "fallback"
    /\ wrote \subseteq unsafeEntries(zip.entries)
    /\ result = "unavailable" => wrote = {}
    /\ LET tool == IF zip.platform = "win32" THEN "Expand-Archive" ELSE "unzip"
       IN  zip' = IF result = "unavailable"
                  THEN [zip EXCEPT !.pc = "done", !.outcome = "error"]
                  ELSE [zip EXCEPT !.pc = "done",
                                   !.extracted = safeEntries(zip.entries) \cup wrote,
                                   !.by = tool,
                                   !.outcome = IF result = "extracted" THEN "returned"
                                               ELSE "error"]

InitZip ==
    /\ ZipInit /\ CfgCmdIdle /\ ExitIdle /\ PdfIdle /\ UploadIdle
    /\ CfgIdle /\ PollIdle /\ HistIdle /\ BatchIdle /\ RestIdle
NextZip ==
    \/ ImportAdmZip
          /\ UNCHANGED <<cfgVars, pollVars, histVars, batchVars, apiKey, printed, lastCmd,
                         exitCode, pdfCmd, upload, restVars>>
    \/ ValidateEntries
          /\ UNCHANGED <<cfgVars, pollVars, histVars, batchVars, apiKey, printed, lastCmd,
                         exitCode, pdfCmd, upload, restVars>>
    \/ \E ok \in BOOLEAN : ExtractAllTo(ok)
          /\ UNCHANGED <<cfgVars, pollVars, histVars, batchVars, apiKey, printed, lastCmd,
                         exitCode, pdfCmd, upload, restVars>>
    \/ \E r \in ToolResults, w \in SUBSET (1..MaxEntries) : CommandLineFallback(r, w)
          /\ UNCHANGED <<cfgVars, pollVars, histVars, batchVars, apiKey, printed, lastCmd,
                         exitCode, pdfCmd, upload, restVars>>
SpecZip == InitZip /\ [][NextZip]_vars

\* C12: extractZip of an archive with an entry that escapes the output directory
\* ends with an error, and no entry of the archive has been extracted, neither by
\* the library nor by the command-line fallback.
C12_UnsafeArchiveRejected ==
    (zip.pc = "done" /\ unsafeEntries(zip.entries) # {})
        => (zip.outcome = "error" /\ zip.extracted = {})

(***************************************************************************)
(* The batch command, handleBatchOcr (src/src/commands/batch.js): scan the *)
(* directory, run processInChunks on what was found, print, and leave the  *)
(* process with an exit code.                                              *)
(***************************************************************************)
\* a directory in which two files differ only in their extension
TwinDirectory ==
    << [dir |-> "in", stem |-> "a", ext |-> ".png"],
       [dir |-> "in", stem |-> "notes", ext |-> ".txt"],
       [dir |-> "in", stem |-> "a", ext |-> ".pdf"],
       [dir |-> "in", stem |-> "b", ext |-> ".jpg"],
       [dir |-> "in", stem |-> "b", ext |-> ".jpeg"],
       [dir |-> "in", stem |-> "c", ext |-> ".webp"] >>
TextDirectory == << [dir |-> "in", stem |-> "notes", ext |-> ".txt"] >>

\* what readdir can return
Listings ==
    { SubSeq(Directory, 1, n) : n \in 1..MaxFiles }
        \cup { SubSeq(TwinDirectory, 1, n) : n \in 1..(MaxFiles + 1) }
        \cup { TextDirectory }

SupportedExts == {".jpg", ".jpeg", ".png", ".webp", ".bmp", ".pdf"}

\* scanDirectory(dirPath, '*'): the entries with a supported extension, in order
scanDirectory(entries) ==
    LET Supported(e) == e.ext \in SupportedExts
    IN  SelectSeq(entries, Supported)

\* join(outputDir, `${fileNameWithoutExt}_result`)
extractedDirOf(path) == OutputDir \o "/" \o basenameNoExt(path) \o "_result"

BatchCmdInit ==
    /\ \E listing \in Listings :
        /\ files = scanDirectory(listing)
        /\ fate \in [1..Len(files) -> Fates]
        /\ started = [k \in 1..Len(files) |-> 0]
    /\ noExtract \in BOOLEAN
    /\ workers \in 1..MaxWorkers
    /\ batchPc = "loop"
    /\ loopI = 0
    /\ chunkPromises = << >>
    /\ results = << >>
    /\ finishOrder = << >>
    /\ batchOutcome = "none"
    /\ exitCode = NoExit

\* if (files.length === 0) throw ...; the catch block ends in process.exit(1)
NoFilesFound ==
    /\ batchPc = "loop"
    /\ files = << >>
    /\ batchPc' = "done"
    /\ batchOutcome' = "rejected"
    /\ exitCode' = [exited |-> TRUE, code |-> 1]
    /\ UNCHANGED <<files, fate, noExtract, workers, loopI, chunkPromises, results,
                   started, finishOrder>>

\* the code the process ends with: process.exit(1) in the catch block, 0 when the
\* handler returns after printing the statistics
exitCodeOf(callOutcome) == IF callOutcome = "rejected" THEN 1 ELSE 0

BatchExits ==
    /\ batchPc = "done"
    /\ ~exitCode.exited
    /\ exitCode' = [exited |-> TRUE, code |-> exitCodeOf(batchOutcome)]
    /\ UNCHANGED batchVars

InitBatchCmd ==
    /\ BatchCmdInit /\ CfgCmdIdle /\ ZipIdle /\ PdfIdle /\ UploadIdle
    /\ CfgIdle /\ PollIdle /\ HistIdle /\ RestIdle
NextBatchCmd ==
    \/ NoFilesFound
          /\ UNCHANGED <<cfgVars, pollVars, histVars, apiKey, printed, lastCmd, zip,
                         pdfCmd, upload, restVars>>
    \/ (files # << >> /\ StartChunk) /\ UNCHANGED <<cfgVars, pollVars, histVars, cmdVars>>
    \/ \E j \in 1..MaxWorkers :
          (files # << >> /\ FileFinishes(j)) /\ UNCHANGED <<cfgVars, pollVars, histVars, cmdVars>>
    \/ (files # << >> /\ AwaitChunk) /\ UNCHANGED <<cfgVars, pollVars, histVars, cmdVars>>
    \/ (files # << >> /\ ReturnResults) /\ UNCHANGED <<cfgVars, pollVars, histVars, cmdVars>>
    \/ BatchExits
          /\ UNCHANGED <<cfgVars, pollVars, histVars, apiKey, printed, lastCmd, zip,
                         pdfCmd, upload, restVars>>
SpecBatchCmd == InitBatchCmd /\ [][NextBatchCmd]_vars

\* C14: the batch command exits with code 0 only when every processed file
\* succeeded, and with code 1 when at least one file failed.
C14_ExitCodeReflectsFailures ==
    exitCode.exited =>
        /\ exitCode.code = 0 =>
              \A k \in 1..Len(results) : results[k].status = "success"
        /\ (\E k \in 1..Len(results) : results[k].status = "failed") => exitCode.code = 1

\* C19: any two distinct files of one batch run write different artifact paths
\* and different extraction directories, files that differ only in their
\* extension included.
C19_DistinctOutputPaths ==
    \A j, k \in 1..Len(files) :
        (j # k /\ started[j] >= 1 /\ started[k] >= 1)
            => /\ zipPathOf(files[j]) # zipPathOf(files[k])
               /\ extractedDirOf(files[j]) # extractedDirOf(files[k])

(***************************************************************************)
(* The pdf command's --max-pages option: commander parses the argument     *)
(* with parseInt, handlePdfOcr (commands/pdf.js) falls back to the default *)
(* and validates before it creates the client and sends the request.       *)
(***************************************************************************)
MaxPagesArg == 102

MAX_PDF_PAGES     == 50       \* LIMITS.MAX_PDF_PAGES
DEFAULT_MAX_PAGES == 50       \* DEFAULTS.MAX_PAGES

\* parseInt of the command-line argument: an integer, NaN for a non-numeric
\* argument, or nothing when the option is not given
MaxPagesArgs ==
    { [kind |-> "int", n |-> n] : n \in -1..MaxPagesArg }
        \cup { [kind |-> "nan", n |-> 0], [kind |-> "absent", n |-> 0] }

\* JavaScript truthiness of options.maxPages
truthy(arg) == arg.kind = "int" /\ arg.n # 0

\* const maxPages = options.maxPages || config.defaults.maxPages
maxPagesOf(arg) == IF truthy(arg) THEN arg.n ELSE DEFAULT_MAX_PAGES

\* validateMaxPages(maxPages) returns (TRUE) or throws (FALSE)
validateMaxPages(pages) == ~(pages < 1 \/ pages > MAX_PDF_PAGES)

AUTO_ASYNC_THRESHOLD == 10

\* --sync, --async, or neither
PdfFlags == {"sync", "async", "auto"}

\* if (options.sync) ... else if (options.async) ... else maxPages > AUTO_ASYNC_THRESHOLD
useAsync(flag, pages) ==
    IF flag = "sync" THEN FALSE
    ELSE IF flag = "async" THEN TRUE
    ELSE pages > AUTO_ASYNC_THRESHOLD

\* const requestData = { ..., max_pages: maxPages }: the options object handed
\* to the client, as a map from property names to values
requestData(pages) == [k \in {"max_pages"} |-> pages]

NoField == [present |-> FALSE, n |-> 0]

\* if (options.maxPages) form.append('max_pages', options.maxPages): the
\* max_pages field of the multipart form, in ocrPdfSync and ocrPdfAsync alike
formMaxPages(options) ==
    IF "maxPages" \in DOMAIN options /\ options["maxPages"] # 0
    THEN [present |-> TRUE, n |-> options["maxPages"]]
    ELSE NoField

PdfInit ==
    pdfCmd \in [pc : {"validate"}, arg : MaxPagesArgs, flag : PdfFlags, requests : {0},
                method : {"none"}, form : {NoField}, rejected : {FALSE}, exit : {0}]

\* handlePdfOcr up to the validation calls; a throw ends in process.exit(1)
ValidateOptions ==
    /\ pdfCmd.pc = "validate"
    /\ pdfCmd' = IF validateMaxPages(maxPagesOf(pdfCmd.arg))
                 THEN [pdfCmd EXCEPT !.pc = "request"]
                 ELSE [pdfCmd EXCEPT !.pc = "done", !.rejected = TRUE, !.exit = 1]

\* new OCRClient(...); client.ocrPdfSync / ocrPdfAsync: the request is sent
SendPdfRequest(ok) ==
    /\ pdfCmd.pc = "request"
    /\ LET maxPages == maxPagesOf(pdfCmd.arg)
       IN  pdfCmd' = [pdfCmd EXCEPT
                        !.pc = "done", !.requests = 1,
                        !.method = IF useAsync(pdfCmd.flag, maxPages) THEN "async" ELSE "sync",
                        !.form = formMaxPages(requestData(maxPages)),
                        !.exit = IF ok THEN 0 ELSE 1]

InitPdf ==
    /\ PdfInit /\ CfgCmdIdle /\ ZipIdle /\ ExitIdle /\ UploadIdle
    /\ CfgIdle /\ PollIdle /\ HistIdle /\ BatchIdle /\ RestIdle
NextPdf ==
    \/ ValidateOptions
          /\ UNCHANGED <<cfgVars, pollVars, histVars, batchVars, apiKey, printed, lastCmd,
                         zip, exitCode, upload, restVars>>
    \/ \E ok \in BOOLEAN : SendPdfRequest(ok)
          /\ UNCHANGED <<cfgVars, pollVars, histVars, batchVars, apiKey, printed, lastCmd,
                         zip, exitCode, upload, restVars>>
SpecPdf == InitPdf /\ [][NextPdf]_vars

\* C15: the pdf command accepts every integer --max-pages from 1 to 100, and
\* rejects every other given value before any request is sent.
C15_MaxPagesOneToHundred ==
    pdfCmd.arg.kind # "absent" =>
        IF pdfCmd.arg.kind = "int" /\ pdfCmd.arg.n \in 1..100
        THEN ~pdfCmd.rejected
        ELSE pdfCmd.requests = 0 /\ pdfCmd.pc # "request"

\* C29: the max_pages value transmitted to the server equals the validated
\* maxPages of the command, in the synchronous and in the asynchronous request.
C29_MaxPagesTransmitted ==
    pdfCmd.requests = 1 => pdfCmd.form = [present |-> TRUE, n |-> maxPagesOf(pdfCmd.arg)]

(***************************************************************************)
(* C16: in waitForTask the sleep after the k-th non-terminal status query  *)
(* is the initial delay for k = 1..5 and min(initial delay x 1.5^(k-5),    *)
(* delay ceiling) for k > 5; with the defaults that is 2000 ms five times, *)
(* then 3000, 4500, 6750, ... and 30000 ms from the 12th query on.         *)
(***************************************************************************)
\* initial delay x 1.5^n, no longer multiplied once it has passed the ceiling
RECURSIVE Grown(_)
Grown(n) ==
    IF n = 0 THEN initialDelayOf
    ELSE LET g == Grown(n - 1)
         IN  IF g >= maxDelayOf THEN g ELSE (g * 3) \div 2
ClaimedSleep(k) ==
    IF k <= 5 THEN initialDelayOf ELSE Min(Grown(k - 5), maxDelayOf)
RECURSIVE SleptAfter(_)
SleptAfter(n) == IF n = 0 THEN 0 ELSE SleptAfter(n - 1) + ClaimedSleep(n)
QueryIssuedInTurn ==
    queries' # queries =>
        /\ queries' = queries + 1
        /\ pollPc = "check"
        /\ pollCount = queries
        /\ Len(sink) = queries
        /\ now - startTime >= SleptAfter(queries)
C17_QueriesNeverOverlap ==
    /\ [](queries - pollCount \in {0, 1})
    /\ [][QueryIssuedInTurn]_vars
C17_Witness ==
    /\ pollPc = "query"
    /\ queries = 7
    /\ pollCount = 6
    /\ Len(sink) = 6
    /\ now - startTime >= SleptAfter(6)

(***************************************************************************)
(* C18: with N workers, at most N single-file operations are in flight at  *)
(* any moment, and no file of a later chunk starts before every file of    *)
(* the earlier chunks has finished.                                        *)
(***************************************************************************)
Finished == { finishOrder[i] : i \in 1..Len(finishOrder) }
InFlight == { k \in 1..Len(files) : started[k] >= 1 /\ k \notin Finished }
chunkOf(k) == (k - 1) \div workers
C18_BoundedConcurrency ==
    /\ Cardinality(InFlight) <= workers
    /\ \A j, k \in 1..Len(files) :
          (chunkOf(j) < chunkOf(k) /\ started[k] >= 1) => j \in Finished
\* two workers, three files: the first chunk ran in parallel (its second file
\* finished first) and the third file is in flight on its own
C18_Witness ==
    /\ workers = 2
    /\ Len(files) = 3
    /\ finishOrder = <<2, 1>>
    /\ InFlight = {3}

(***************************************************************************)
(* The upload requests of the client: ocrImage, ocrPdfSync and ocrPdfAsync *)
(* (src/src/lib/client.js) share one hand-written retry loop.  A response  *)
(* is the HTTP status of the answer (0 when there was none) and the error  *)
(* code of the failure ("" when there is none).                            *)
(***************************************************************************)
MaxRetriesOpt == 4

MAX_RETRIES == 3              \* DEFAULTS.MAX_RETRIES

Methods == {"ocrImage", "ocrPdfSync", "ocrPdfAsync"}

Ok == [status |-> 200, code |-> ""]
Responses ==
    { Ok,
      [status |-> 500, code |-> "ERR_BAD_RESPONSE"],
      [status |-> 503, code |-> "ERR_BAD_RESPONSE"],
      [status |-> 400, code |-> "ERR_BAD_REQUEST"],
      [status |-> 404, code |-> "ERR_BAD_REQUEST"],
      [status |-> 0, code |-> "ECONNRESET"],
      [status |-> 0, code |-> "ETIMEDOUT"],
      [status |-> 0, code |-> "ECONNABORTED"] }

RetriedCodes == {"ECONNRESET", "ETIMEDOUT", "ENOTFOUND", "ENETUNREACH"}

\* this.maxRetries = options.maxRetries || DEFAULTS.MAX_RETRIES
maxRetriesOf(opt) == IF opt = 0 THEN MAX_RETRIES ELSE opt

\* Faulty variant of shouldRetry: every failure is retried, whatever its kind.
shouldRetryAnyError(attempt, maxAttempts, error) == attempt < maxAttempts

\* const shouldRetry = attempt < maxAttempts && (5xx || retried network code)
shouldRetry(attempt, maxAttempts, error) ==
    /\ attempt < maxAttempts
    /\ \/ error.status # 0 /\ error.status >= 500
       \/ error.code # "" /\ error.code \in RetriedCodes

\* Math.min(1000 * Math.pow(2, attempt - 1), 10000), in ms
backoffDelay(attempt) == Min(1000 * 2 ^ (attempt - 1), 10000)

UploadInit ==
    upload \in [pc : {"attempt"}, method : Methods, maxRetries : 0..MaxRetriesOpt,
                attempt : {1}, errors : {<< >>}, sleeps : {<< >>},
                outcome : {[kind |-> "none", error |-> Ok]}]

\* one pass of the loop body: the post answers, or fails into the catch block
Attempt(response) ==
    /\ upload.pc = "attempt"
    /\ LET maxAttempts == maxRetriesOf(upload.maxRetries) + 1
       IN  upload' =
             IF response = Ok
             THEN [upload EXCEPT !.pc = "done",
                                 !.outcome = [kind |-> "returned", error |-> Ok]]
             ELSE IF shouldRetry(upload.attempt, maxAttempts, response)
                  THEN [upload EXCEPT !.pc = "sleep",
                                      !.errors = Append(@, response),
                                      !.sleeps = Append(@, backoffDelay(upload.attempt))]
                  ELSE [upload EXCEPT !.pc = "done",
                                      !.errors = Append(@, response),
                                      !.outcome = [kind |-> "thrown", error |-> response]]

\* the backoff timer fires: attempt++, and the loop condition is tested
BackoffElapses ==
    /\ upload.pc = "sleep"
    /\ LET maxAttempts == maxRetriesOf(upload.maxRetries) + 1
           lastError   == upload.errors[Len(upload.errors)]
       IN  upload' =
             IF upload.attempt + 1 <= maxAttempts
             THEN [upload EXCEPT !.pc = "attempt", !.attempt = @ + 1]
             ELSE [upload EXCEPT !.pc = "done", !.attempt = @ + 1,
                                 !.outcome = [kind |-> "thrown", error |-> lastError]]

InitUpload ==
    /\ UploadInit /\ CfgCmdIdle /\ ZipIdle /\ ExitIdle /\ PdfIdle
    /\ CfgIdle /\ PollIdle /\ HistIdle /\ BatchIdle /\ RestIdle
NextUpload ==
    \/ \E r \in Responses : Attempt(r)
          /\ UNCHANGED <<cfgVars, pollVars, histVars, batchVars, apiKey, printed, lastCmd,
                         zip, exitCode, pdfCmd, restVars>>
    \/ BackoffElapses
          /\ UNCHANGED <<cfgVars, pollVars, histVars, batchVars, apiKey, printed, lastCmd,
                         zip, exitCode, pdfCmd, restVars>>
SpecUpload == InitUpload /\ [][NextUpload]_vars

\* C20: an upload that keeps failing with a transient error (HTTP 5xx, connection
\* reset or timeout) is attempted at most 1 + maxRetries times (3 retries by
\* default) with a backoff sleep before each further attempt, and then the last
\* error is thrown; a non-transient error (HTTP 4xx) is thrown after the attempt
\* that met it, with no retry, so a request that fails that way is tried once.
Transient(error)    == error.status >= 500 \/ error.code \in {"ECONNRESET", "ETIMEDOUT"}
NonTransient(error) == error.status \in 400..499
AttemptsMade == Len(upload.errors) + (IF upload.outcome.kind = "returned" THEN 1 ELSE 0)
C20_BoundedRetries ==
    LET limit == 1 + (IF upload.maxRetries = 0 THEN 3 ELSE upload.maxRetries)
        n     == Len(upload.errors)
    IN  /\ AttemptsMade <= limit
        /\ upload.attempt <= limit
        /\ Len(upload.sleeps) = (IF upload.pc = "sleep" THEN upload.attempt
                                                           ELSE upload.attempt - 1)
        /\ \A i \in 1..Len(upload.sleeps) : upload.sleeps[i] > 0
        /\ \A i \in 1..n :
              NonTransient(upload.errors[i])
                  => /\ i = n
                     /\ upload.pc = "done"
                     /\ upload.outcome = [kind |-> "thrown", error |-> upload.errors[i]]
        /\ (n >= 1 /\ NonTransient(upload.errors[1]))
              => (upload.attempt = 1 /\ upload.sleeps = << >>)
        /\ upload.outcome.kind = "thrown"
              => /\ upload.outcome.error = upload.errors[n]
                 /\ (\A i \in 1..n : Transient(upload.errors[i])) => n = limit
\* the default three retries used up on server errors: four attempts, three
\* sleeps of 1 s, 2 s and 4 s, and the last error thrown
C20_Witness ==
    /\ upload.maxRetries = 0
    /\ upload.pc = "done"
    /\ Len(upload.errors) = 4
    /\ upload.sleeps = <<1000, 2000, 4000>>
    /\ upload.outcome = [kind |-> "thrown", error |-> [status |-> 503, code |-> "ERR_BAD_RESPONSE"]]

(***************************************************************************)
(* C30: in a batch run with N >= 1 workers processSingleFile is started    *)
(* exactly once for every input file: never twice, and when the run        *)
(* returns no file has been skipped, whatever the other files' outcomes    *)
(* and whether N is below, equal to or above the number of files.          *)
(***************************************************************************)
C30_EachFileStartedOnce ==
    /\ \A k \in 1..Len(files) : started[k] <= 1
    /\ batchOutcome = "returned" => \A k \in 1..Len(files) : started[k] = 1
\* three files, two workers: the last chunk is short, and a file of the first
\* chunk failed
C30_Witness ==
    /\ batchOutcome = "returned"
    /\ workers = 2
    /\ started = <<1, 1, 1>>
    /\ fate[1] = "uploadFails"

(***************************************************************************)
(* processInChunks for every value the --workers option can parse to.      *)
(* commander hands the option to parseInt, nothing validates the result,   *)
(* so the loop "for (i = 0; i < files.length; i += workers)" runs on any   *)
(* JavaScript number: an integer of either sign, or NaN.                   *)
(***************************************************************************)
Num(n) == [nan |-> FALSE, n |-> n]
NaN    == [nan |-> TRUE, n |-> 0]

\* what parseInt can make of the --workers argument
ParsedWorkers == { Num(n) : n \in -1..MaxWorkers } \cup { NaN }

\* i + workers.  Below -files.length every value of i behaves alike (the
\* condition holds and the slice is empty), so the sum is kept at that floor.
jsAdd(a, b) ==
    IF a.nan \/ b.nan THEN NaN
    ELSE IF a.n + b.n < -Len(files) THEN Num(-Len(files)) ELSE Num(a.n + b.n)

\* i < files.length: false when i is NaN
jsLess(a, len) == ~a.nan /\ a.n < len

\* Array.prototype.slice's reading of a bound: NaN is 0, a negative bound counts
\* from the end, and the result is clamped to 0..length
sliceBound(x, len) ==
    IF x.nan THEN 0
    ELSE IF x.n < 0 THEN (IF len + x.n < 0 THEN 0 ELSE len + x.n)
    ELSE IF x.n > len THEN len ELSE x.n

\* the value of a promise that has not settled yet
Unsettled == [file |-> "", status |-> "running", output |-> Undefined, error |-> Undefined]

BatchAnyInit ==
    /\ \E n \in 1..MaxFiles :
        /\ files = SubSeq(Directory, 1, n)
        /\ fate \in [1..n -> Fates]
        /\ started = [k \in 1..n |-> 0]
    /\ noExtract \in BOOLEAN
    /\ workers \in ParsedWorkers
    /\ batchPc = "loop"
    /\ loopI = Num(0)
    /\ chunkPromises = << >>
    /\ results = << >>
    /\ finishOrder = << >>
    /\ batchOutcome = "none"

\* the loop condition holds: files.slice(i, i + workers).map(processSingleFile)
StartChunkAny ==
    /\ batchPc = "loop"
    /\ jsLess(loopI, Len(files))
    /\ LET from == sliceBound(loopI, Len(files))
           to   == sliceBound(jsAdd(loopI, workers), Len(files))
           size == IF to > from THEN to - from ELSE 0
       IN  /\ chunkPromises' = [j \in 1..size |->
                                  [state |-> "running", index |-> from + j,
                                   value |-> Unsettled]]
           /\ started' = [k \in 1..Len(files) |->
                            IF k > from /\ k <= from + size THEN started[k] + 1
                                                            ELSE started[k]]
    /\ batchPc' = "await"
    /\ UNCHANGED <<files, fate, noExtract, workers, loopI, results, finishOrder,
                   batchOutcome>>

\* await Promise.all(chunkPromises); results.push(...chunkResults); i += workers
AwaitChunkAny ==
    /\ batchPc = "await"
    /\ \A j \in 1..Len(chunkPromises) : chunkPromises[j].state = "fulfilled"
    /\ results' = pushed(results, chunkPromises)
    /\ loopI' = jsAdd(loopI, workers)
    /\ batchPc' = "loop"
    /\ UNCHANGED <<files, fate, noExtract, workers, chunkPromises, started, finishOrder,
                   batchOutcome>>

\* the loop condition fails: return results
ReturnResultsAny ==
    /\ batchPc = "loop"
    /\ ~jsLess(loopI, Len(files))
    /\ batchPc' = "done"
    /\ batchOutcome' = "returned"
    /\ UNCHANGED <<files, fate, noExtract, workers, loopI, chunkPromises, results,
                   started, finishOrder>>

InitBatchAny == BatchAnyInit /\ CfgIdle /\ PollIdle /\ HistIdle /\ CmdIdle
NextBatchAny ==
    \/ StartChunkAny /\ UNCHANGED <<cfgVars, pollVars, histVars, cmdVars>>
    \/ \E j \in 1..MaxWorkers : FileFinishes(j) /\ UNCHANGED <<cfgVars, pollVars, histVars, cmdVars>>
    \/ AwaitChunkAny /\ UNCHANGED <<cfgVars, pollVars, histVars, cmdVars>>
    \/ ReturnResultsAny /\ UNCHANGED <<cfgVars, pollVars, histVars, cmdVars>>

\* every single-file operation terminates and the event loop runs every
\* continuation that is due
SpecBatchAny == InitBatchAny /\ [][NextBatchAny]_vars /\ WF_vars(NextBatchAny)

\* C27: processInChunks eventually returns for every list of files and every
\* value of the workers option, 0, negative numbers and NaN included.
C27_BatchLoopTerminates == <>(batchPc = "done")

(***************************************************************************)
(* waitForTask called with an initial delay above the delay ceiling        *)
(* (client.js 356-399).  The pdf command passes config.defaults.           *)
(* pollInterval as initialDelay and leaves maxDelay to its default, so a   *)
(* configured poll interval above the ceiling is an input of the call.     *)
(***************************************************************************)
WideInitialDelays == {Ms(4000), Ms(12000)}
WideMaxDelays     == {Ms(10000)}
WideTimeouts      == {Ms(40000)}

PollWideInit ==
    /\ pollOpts \in [initialDelay : WideInitialDelays, maxDelay : WideMaxDelays,
                     timeout : WideTimeouts]
    /\ script \in Scripts
    /\ pollPc = "check"
    /\ now = 0
    /\ startTime = 0
    /\ delay = OrDefault(pollOpts.initialDelay, POLL_INTERVAL)
    /\ pollCount = 0
    /\ sleepFor = 0
    /\ queries = 0
    /\ sink = << >>
    /\ outcome = NoOutcome

InitPollWide == PollWideInit /\ CfgIdle /\ HistIdle /\ BatchIdle /\ CmdIdle
SpecPollWide == InitPollWide /\ [][NextPoll]_vars

(***************************************************************************)
(* C28: every sleep between two status queries of waitForTask lasts at     *)
(* most the delay ceiling (maxDelay), also when the initial delay passed   *)
(* in is larger than the ceiling.                                          *)
(***************************************************************************)
C28_SleepWithinCeiling == pollPc = "sleep" => sleepFor <= maxDelayOf

(***************************************************************************)
(* C24: in every stored task record, after any sequence of record,         *)
(* updateStatus and download operations, an error detail is present if and *)
(* only if the stored status is "failed".                                  *)
(***************************************************************************)
C24_ErrorIffFailed ==
    \A i \in 1..Len(historyFile.entries) :
        (historyFile.entries[i].error # Undefined)
            <=> (historyFile.entries[i].status = "failed")

(***************************************************************************)
(* C26: the task list prunes, persists the pruned set and returns exactly  *)
(* the entries submitted inside the retention window, in their insertion   *)
(* order; after the call the persisted store equals the returned list.     *)
(***************************************************************************)
InsideWindow(history, t) ==
    LET Inside(h) == t - getTime(h.submitted_at) < RETENTION
    IN  SelectSeq(history, Inside)

ListStep ==
    lastOp'.op = "list" =>
        /\ lastOp'.returned = InsideWindow(loadHistory, clock)
        /\ (IF historyFile'.exists THEN historyFile'.entries ELSE << >>) = lastOp'.returned

MaxScanned == 2

RunKinds == {"image", "pdf", "batch"}

Verdicts == UNION {[1..n -> BOOLEAN] : n \in 0..MaxScanned}

\* validateConfig(config): the credential and the endpoint must be non-empty
validateConfig(config) == config.key /\ config.url

\* the checks of each handler, in the order of its calls
stepsOf(kind) ==
    IF kind = "batch" THEN <<"config", "params", "scan", "files">>
    ELSE <<"config", "file", "params">>

\* Faulty variant of validFiles: every scanned file is kept, whatever validateFile said.
validFilesUnfiltered == [k \in 1..Len(run.filesOk) |-> k]

\* for (const file of files) { try { validateFile(file); validFiles.push(file) } catch ... }
validFiles ==
    LET Valid(k) == run.filesOk[k]
    IN  SelectSeq([k \in 1..Len(run.filesOk) |-> k], Valid)

\* the outcome of one check on the command's input
passes(step) ==
    CASE step = "config" -> validateConfig([key |-> run.key, url |-> run.url])
      [] step = "file"   -> run.fileOk
      [] step = "params" -> run.paramsOk
      [] step = "scan"   -> Len(run.filesOk) > 0
      [] step = "files"  -> Len(validFiles) > 0

\* what the command uploads: its one input file (0), or the valid files of the batch
targets == IF run.kind = "batch" THEN validFiles ELSE <<0>>

RunInit ==
    /\ run \in [pc : {"validate"}, kind : RunKinds, key : BOOLEAN, url : BOOLEAN,
                fileOk : BOOLEAN, paramsOk : BOOLEAN, filesOk : Verdicts,
                step : {1}, sent : {<< >>}, rejected : {FALSE}]
    /\ run.kind = "batch" => run.fileOk
    /\ run.kind # "batch" => run.filesOk = << >>

\* the next check of the handler: it passes, or it throws and the command ends
RunValidate ==
    /\ run.pc = "validate"
    /\ run' = IF passes(stepsOf(run.kind)[run.step])
              THEN IF run.step = Len(stepsOf(run.kind))
                   THEN [run EXCEPT !.pc = "request"]
                   ELSE [run EXCEPT !.step = @ + 1]
              ELSE [run EXCEPT !.pc = "done", !.rejected = TRUE]

\* new OCRClient(...) and the next upload: client.ocrImage / ocrPdfSync /
\* ocrPdfAsync, or processSingleFile for the next file of the batch
RunSend ==
    /\ run.pc = "request"
    /\ LET sent == Append(run.sent, targets[Len(run.sent) + 1])
       IN  run' = [run EXCEPT !.sent = sent,
                              !.pc = IF Len(sent) = Len(targets) THEN "done" ELSE "request"]

InitRun ==
    /\ RunInit /\ ProcIdle /\ WritersIdle
    /\ CfgCmdIdle /\ ZipIdle /\ ExitIdle /\ PdfIdle /\ UploadIdle
    /\ CfgIdle /\ PollIdle /\ HistIdle /\ BatchIdle
NextRun ==
    \/ RunValidate
          /\ UNCHANGED <<cfgVars, pollVars, histVars, batchVars, apiKey, printed, lastCmd,
                         zip, exitCode, pdfCmd, upload, proc, writers>>
    \/ RunSend
          /\ UNCHANGED <<cfgVars, pollVars, histVars, batchVars, apiKey, printed, lastCmd,
                         zip, exitCode, pdfCmd, upload, proc, writers>>
SpecRun == InitRun /\ [][NextRun]_vars

(***************************************************************************)
(* C21: local validation precedes every network call.  In the image, pdf   *)
(* and batch commands a request has been sent only if the configuration    *)
(* has a credential and an endpoint and the file and the parameters passed *)
(* validation; a command ended by a failed check has sent nothing; and a   *)
(* batch file that failed validation is never uploaded.                    *)
(***************************************************************************)
C21_ValidationPrecedesRequests ==
    run.pc # "idle" =>
        /\ Len(run.sent) > 0 =>
              /\ run.key /\ run.url /\ run.paramsOk
              /\ run.kind # "batch" => run.fileOk
        /\ run.kind = "batch" => \A i \in 1..Len(run.sent) : run.filesOk[run.sent[i]]
        /\ run.rejected => run.sent = << >>

\* a batch whose first file fails validation: only the second one was uploaded
C21_Witness ==
    /\ run.pc = "done"
    /\ run.kind = "batch"
    /\ run.filesOk = <<FALSE, TRUE>>
    /\ run.sent = <<2>>

(***************************************************************************)
(* Waiting for an asynchronous task: the async path of handlePdfOcr        *)
(* (commands/pdf.js), which calls client.waitForTask, and handleTaskWait   *)
(* (commands/task.js), which runs a polling loop of its own.  The loop     *)
(* state is the poll variables, the task's history entry is in the history *)
(* file, and proc is the process: which command it runs, the listeners it  *)
(* has registered for SIGINT, whether it is still alive.                   *)
(*                                                                         *)
(* Node.js ends a process on SIGINT only while no listener is registered   *)
(* for the signal; with listeners, they run in registration order and the  *)
(* process goes on unless one of them calls process.exit.                  *)
(***************************************************************************)
TaskA == "task-a"
FileA == "a.pdf"

TW_MAX_WAIT  == Ms(3600000)     \* const maxWaitTime = 3600000
TW_DELAY     == Ms(2000)        \* let delay = 2000
TW_MAX_DELAY == Ms(30000)       \* const maxDelay = 30000

AsyncLatency == Ms(3000)        \* how long one status request takes

AsyncSnapshots ==
    { Snap("pending", 0, Undefined), Snap("processing", 45, Undefined),
      Snap("completed", 100, Undefined), Snap("failed", 45, "out of memory"),
      QueryError }

AsyncScripts == UNION {[1..n -> AsyncSnapshots] : n \in 1..MaxScriptLen}

WaitCommands == {"pdf", "taskWait"}

\* the listeners registered for SIGINT when the wait begins, in registration
\* order: createProgressBar registers cleanup (bar.stop() only) for every bar
\* of a text-mode run, setupCtrlCHandler registers the handler that exits
sigintListeners(cmd, json) ==
    IF cmd = "pdf"
    THEN IF json THEN <<"ctrlC">> ELSE <<"cleanup", "ctrlC", "cleanup">>
    ELSE IF json THEN << >> ELSE <<"cleanup">>

\* the process ends on SIGINT: by default without a listener, or by a
\* listener's process.exit(0)
sigintExits(listeners) ==
    \/ listeners = << >>
    \/ \E i \in 1..Len(listeners) : listeners[i] = "ctrlC"

\* the status field of the task's entry in the history file
entryStatus(taskId) ==
    LET history == loadHistory
        i == findIndex(history, taskId)
    IN  IF i >= 1 THEN history[i].status ELSE "<absent>"

AsyncInit ==
    /\ proc \in [pc : {"wait"}, cmd : WaitCommands, json : BOOLEAN, alive : {TRUE},
                 interrupted : {FALSE}, barStopped : {FALSE}, polled : {"none"},
                 lateRequest : {FALSE}, downloaded : {FALSE}, exit : {0}]
    /\ pollOpts \in [initialDelay : InitialDelays, maxDelay : {0}, timeout : {Ms(20000)}]
    /\ proc.cmd = "taskWait" => pollOpts.initialDelay = 0
    /\ script \in AsyncScripts
    /\ pollPc = "check"
    /\ now = 0
    /\ startTime = 0
    /\ delay = IF proc.cmd = "pdf" THEN OrDefault(pollOpts.initialDelay, POLL_INTERVAL)
               ELSE TW_DELAY
    /\ pollCount = 0
    /\ sleepFor = 0
    /\ queries = 0
    /\ sink = << >>
    /\ outcome = NoOutcome
    \* the task was recorded when it was submitted: addTaskToHistory(taskId, path)
    /\ historyFile = [exists |-> TRUE, entries |-> addedHistory(<< >>, TaskA, FileA, 0)]
    /\ clock = 0
    /\ lastOp = NoOp

Waiting(cmd) == proc.cmd = cmd /\ proc.alive /\ proc.pc = "wait"

\* the process after a request was issued
Requested == [proc EXCEPT !.lateRequest = @ \/ proc.interrupted]

\* the process after the loop ended with a throw: catch block, process.exit(1)
Thrown == [proc EXCEPT !.pc = "done", !.exit = 1, !.alive = FALSE]

\* the process after a snapshot was received
Polled(status) ==
    [proc EXCEPT !.polled = status,
                 !.pc = IF status = "completed" THEN "download"
                        ELSE IF status = "failed" THEN "done" ELSE "wait",
                 !.exit = IF status = "failed" THEN 1 ELSE @,
                 !.alive = status # "failed"]

\* ---- handlePdfOcr, async path: await client.waitForTask(taskId, {...}) ----
PdfTimeout == Waiting("pdf") /\ ThrowTimeout /\ proc' = Thrown /\ UNCHANGED histVars
PdfQuery   == Waiting("pdf") /\ IssueQuery /\ proc' = Requested /\ UNCHANGED histVars
PdfRaises  == Waiting("pdf") /\ QueryRaises(AsyncLatency) /\ proc' = Thrown
                /\ UNCHANGED histVars
PdfReturns ==
    /\ Waiting("pdf")
    /\ QueryReturns(AsyncLatency)
    /\ proc' = Polled(ScriptAt(queries).status)
    /\ UNCHANGED histVars
PdfSleep   == Waiting("pdf") /\ SleepElapses /\ UNCHANGED proc /\ UNCHANGED histVars

\* const resultBuffer = await client.downloadTaskResult(taskId)
PdfDownload ==
    /\ proc.cmd = "pdf" /\ proc.alive /\ proc.pc = "download"
    /\ proc' = [Requested EXCEPT !.pc = "done", !.downloaded = TRUE, !.alive = FALSE]
    /\ UNCHANGED <<pollVars, histVars>>

\* ---- handleTaskWait: while (!completed) { ... } ----
\* if (Date.now() - startTime > maxWaitTime) throw
TwTimeout ==
    /\ Waiting("taskWait")
    /\ pollPc = "check"
    /\ now - startTime > TW_MAX_WAIT
    /\ pollPc' = "done"
    /\ outcome' = [kind |-> "timeout", snapshot |-> Undefined, message |-> Undefined]
    /\ proc' = Thrown
    /\ UNCHANGED <<pollOpts, script, now, startTime, delay, pollCount, sleepFor,
                   queries, sink>>
    /\ UNCHANGED histVars

\* const status = await client.getTaskStatus(taskId): the request goes out
TwQuery ==
    /\ Waiting("taskWait")
    /\ pollPc = "check"
    /\ ~(now - startTime > TW_MAX_WAIT)
    /\ pollPc' = "query"
    /\ queries' = queries + 1
    /\ proc' = Requested
    /\ UNCHANGED <<pollOpts, script, now, startTime, delay, pollCount, sleepFor,
                   sink, outcome>>
    /\ UNCHANGED histVars

\* the request raises: inner catch rethrows, outer catch exits with 1
TwRaises ==
    /\ Waiting("taskWait")
    /\ pollPc = "query"
    /\ ScriptAt(queries) = QueryError
    /\ now' = now + AsyncLatency
    /\ pollPc' = "done"
    /\ outcome' = [kind |-> "error", snapshot |-> Undefined, message |-> QueryError.error]
    /\ proc' = Thrown
    /\ UNCHANGED <<pollOpts, script, startTime, delay, pollCount, sleepFor, queries, sink>>
    /\ UNCHANGED histVars

\* the request answers: updateTaskStatus(taskId, status.status, status.error),
\* then download / throw / setTimeout(resolve, delay)
TwReturns ==
    /\ Waiting("taskWait")
    /\ pollPc = "query"
    /\ ScriptAt(queries) # QueryError
    /\ LET status == ScriptAt(queries)
       IN  /\ now' = now + AsyncLatency
           /\ updateTaskStatus(TaskA, status.status, status.error)
           /\ proc' = Polled(status.status)
           /\ outcome' = Completion(status)
           /\ pollCount' = pollCount + 1
           /\ IF status.status \in Terminal
              THEN pollPc' = "done" /\ sleepFor' = sleepFor
              ELSE pollPc' = "sleep" /\ sleepFor' = delay
    /\ UNCHANGED <<pollOpts, script, startTime, delay, queries, sink>>

\* the timer fires: delay = Math.min(delay * 1.5, maxDelay)
TwSleep ==
    /\ Waiting("taskWait")
    /\ pollPc = "sleep"
    /\ now' = now + sleepFor
    /\ delay' = Min((delay * 3) \div 2, TW_MAX_DELAY)
    /\ pollPc' = "check"
    /\ UNCHANGED <<pollOpts, script, startTime, pollCount, sleepFor, queries, sink, outcome>>
    /\ UNCHANGED proc
    /\ UNCHANGED histVars

\* const result = await client.downloadTaskResult(taskId), in the completed branch
TwDownload ==
    /\ proc.cmd = "taskWait" /\ proc.alive /\ proc.pc = "download"
    /\ proc' = [Requested EXCEPT !.pc = "done", !.downloaded = TRUE, !.alive = FALSE]
    /\ UNCHANGED <<pollVars, histVars>>

\* the user presses Ctrl+C while the loop is suspended in a request or a sleep
Sigint ==
    /\ proc.alive /\ proc.pc = "wait" /\ ~proc.interrupted
    /\ pollPc \in {"query", "sleep"}
    /\ LET listeners == sigintListeners(proc.cmd, proc.json)
           exits     == sigintExits(listeners)
       IN  proc' = [proc EXCEPT
                      !.interrupted = TRUE,
                      !.barStopped = \E i \in 1..Len(listeners) : listeners[i] = "cleanup",
                      !.alive = ~exits,
                      !.pc = IF exits THEN "done" ELSE @,
                      !.exit = IF listeners = << >> THEN 130 ELSE 0]
    /\ UNCHANGED <<pollVars, histVars>>

AsyncRest ==
    <<cfgVars, batchVars, apiKey, printed, lastCmd, zip, exitCode, pdfCmd, upload,
      run, writers>>

InitAsync ==
    /\ AsyncInit /\ RunIdle /\ WritersIdle
    /\ CfgCmdIdle /\ ZipIdle /\ ExitIdle /\ PdfIdle /\ UploadIdle
    /\ CfgIdle /\ BatchIdle
NextAsync ==
    \/ PdfTimeout /\ UNCHANGED AsyncRest
    \/ PdfQuery /\ UNCHANGED AsyncRest
    \/ PdfRaises /\ UNCHANGED AsyncRest
    \/ PdfReturns /\ UNCHANGED AsyncRest
    \/ PdfSleep /\ UNCHANGED AsyncRest
    \/ PdfDownload /\ UNCHANGED AsyncRest
    \/ TwTimeout /\ UNCHANGED AsyncRest
    \/ TwQuery /\ UNCHANGED AsyncRest
    \/ TwRaises /\ UNCHANGED AsyncRest
    \/ TwReturns /\ UNCHANGED AsyncRest
    \/ TwSleep /\ UNCHANGED AsyncRest
    \/ TwDownload /\ UNCHANGED AsyncRest
    \/ Sigint /\ UNCHANGED AsyncRest
SpecAsync == InitAsync /\ [][NextAsync]_vars

(***************************************************************************)
(* C22: the history entry of a task is updated on every status check: once *)
(* a command has obtained a status snapshot for a recorded task, the       *)
(* entry's status equals the polled status; and after the pdf command's    *)
(* asynchronous flow has polled the task to "completed" and downloaded the *)
(* result, the entry no longer shows "pending".                            *)
(***************************************************************************)
C22_EntryFollowsPolledStatus ==
    proc.pc # "idle" =>
        /\ proc.polled # "none" => entryStatus(TaskA) = proc.polled
        /\ proc.downloaded => entryStatus(TaskA) # "pending"

(***************************************************************************)
(* C23: a SIGINT received while the client waits for an asynchronous task  *)
(* (the pdf command's polling or task wait, with or without a progress     *)
(* bar) ends the local wait loop: after the interrupt no status query and  *)
(* no other request is sent for the task.                                  *)
(***************************************************************************)
C23_InterruptEndsWait ==
    proc.pc # "idle" =>
        /\ ~proc.lateRequest
        /\ proc.interrupted => ~proc.alive

(***************************************************************************)
(* Two CLI processes working on the history file at the same time.  Inside *)
(* one process addTaskToHistory and updateTaskStatus run to completion     *)
(* (readFileSync ... writeFileSync), but nothing locks the file, so the    *)
(* read and the write of one process can enclose those of another.         *)
(***************************************************************************)
WriterOps ==
    { [kind |-> "record", taskId |-> t, status |-> "pending", error |-> Undefined] :
          t \in TaskIds }
      \cup
    { [kind |-> "update", taskId |-> t, status |-> a[1], error |-> a[2]] :
          t \in TaskIds, a \in UpdateArgs }

\* the stores the two processes can find: no file yet, or one recorded task
WriterStores ==
    { [exists |-> FALSE, entries |-> << >>],
      [exists |-> TRUE, entries |-> addedHistory(<< >>, TaskA, FileA, 0)] }

\* the array the call holds when it reaches saveHistory
modified(op, history, t) ==
    IF op.kind = "record"
    THEN addedHistory(history, op.taskId, FileA, t)
    ELSE updatedHistory(history, op.taskId, op.status, op.error, t)

\* addTaskToHistory always saves, updateTaskStatus only when the task was found
willSave(op, history) == op.kind = "record" \/ updateSaves(history, op.taskId)

\* how many of the processes have written the file
saves == Cardinality({w \in 1..Len(writers) : writers[w].savedAt > 0})

WritersInit ==
    /\ writers \in [1..2 -> [pc : {"load"}, op : WriterOps, array : {<< >>},
                             savedAt : {0}]]
    /\ historyFile \in WriterStores
    /\ clock = 0
    /\ lastOp = NoOp

\* const history = loadHistory(); ... the in-memory modification
WriterLoads(w) ==
    /\ writers[w].pc = "load"
    /\ writers' = [writers EXCEPT
                     ![w].pc = IF willSave(writers[w].op, loadHistory) THEN "save" ELSE "done",
                     ![w].array = modified(writers[w].op, loadHistory, clock)]
    /\ UNCHANGED histVars

\* saveHistory(history): writeFileSync of the whole array
WriterSaves(w) ==
    /\ writers[w].pc = "save"
    /\ historyFile' = saveHistory(writers[w].array)
    /\ writers' = [writers EXCEPT ![w].pc = "done", ![w].savedAt = saves + 1]
    /\ UNCHANGED <<clock, lastOp>>

WritersRest ==
    <<cfgVars, pollVars, batchVars, apiKey, printed, lastCmd, zip, exitCode, pdfCmd,
      upload, run, proc>>

InitWriters ==
    /\ WritersInit /\ RunIdle /\ ProcIdle
    /\ CfgCmdIdle /\ ZipIdle /\ ExitIdle /\ PdfIdle /\ UploadIdle
    /\ CfgIdle /\ PollIdle /\ BatchIdle
NextWriters ==
    \/ \E w \in 1..2 : WriterLoads(w) /\ UNCHANGED WritersRest
    \/ \E w \in 1..2 : WriterSaves(w) /\ UNCHANGED WritersRest
SpecWriters == InitWriters /\ [][NextWriters]_vars

(***************************************************************************)
(* C25: every mutating call rewrites the history store in full and         *)
(* concurrent invocations are not coordinated: when two invocations        *)
(* interleave their load-modify-save steps, the store after both have      *)
(* finished is exactly what the later save wrote (last writer wins), so an *)
(* entry or update of the earlier writer can be absent from it.            *)
(***************************************************************************)
AllDone == \A w \in 1..Len(writers) : writers[w].pc = "done"

====
